---- MODULE Spec2Model ----
(***************************************************************************)
(* A model of tk_houdini_geometrynode/handler.py: the Toolkit geometry     *)
(* node handler of a Houdini session.  The host's node graph, the work     *)
(* file, the disk and the publish registry are the state; every handler    *)
(* method is one action.                                                   *)
(***************************************************************************)
EXTENDS Integers, Sequences, FiniteSets, TLC

VARIABLES
    nodes,      \* the session's node graph: live node id -> node
    profiles,   \* TkGeometryNodeHandler._output_profiles, in menu order
    host,       \* the host session: UI, work file, templates, parm typing
    disk,       \* the disk: its cache files and its directories
    publishes,  \* the publish records registered so far, in order
    ret,        \* what the last handler call did: op, result, error, log
    snap,       \* history: per node name, the Toolkit node before conversion
    sessions,   \* the auto_version calls under way, one per concurrent session
    config      \* the app's 'output_profiles' setting: the configured profiles

vars == <<nodes, profiles, host, disk, publishes, ret, snap, sessions, config>>

----------------------------------------------------------------------------
(* Bounds of the model *)

MaxNodes == 4       \* node ids available to a session
MaxVer == 2         \* highest cache version a scene starts with or writes
MaxFrame == 3       \* frames of a sequence are 1..MaxFrame
MaxDiskVer == 5     \* highest cache version found on disk when versioning
MaxPublishes == 3   \* publish records of the registry
MaxProfiles == 3    \* entries of the configured list of output profiles

NoSessions == <<>>  \* no auto_version call is under way

----------------------------------------------------------------------------
(* Class data, handler.py:41-80 *)

HOU_ROP_GEOMETRY_TYPE == "geometry"
HOU_SOP_GEOMETRY_TYPE == "rop_geometry"
NODE_OUTPUT_PATH_PARM == "sopoutput"
TK_GEOMETRY_NODE_TYPE == "sgtk_geometry"
TK_OUTPUT_CONNECTION_CODEC == <<"s", "g", "t", "k", "-", "0", "1">>
TK_OUTPUT_PROFILE_PARM == "output_profile"

\* Other node types of a scene: a node with two inputs that is never converted.
MERGE_TYPE == "merge"
\* a node of another type, with spare parameters named like the geometry node's
NULL_TYPE == "null"

NoError == ""

----------------------------------------------------------------------------
(* Small helpers *)

Min(S) == CHOOSE x \in S : \A y \in S : x <= y
Max(S) == CHOOSE x \in S : \A y \in S : x >= y

RECURSIVE SetToSeq(_)
SetToSeq(S) == IF S = {} THEN <<>> ELSE <<Min(S)>> \o SetToSeq(S \ {Min(S)})

\* list.index(x): the first position (0-based) of x, or -1 (ValueError)
IndexOf(seq, x) ==
    IF \E i \in 1..Len(seq) : seq[i] = x
    THEN Min({i \in 1..Len(seq) : seq[i] = x}) - 1
    ELSE -1

----------------------------------------------------------------------------
(* The host's parameters.  A parameter holds keyframes (a set of           *)
(* [f, v], one per frame), an evaluated number i and a raw string s; a     *)
(* string is a sequence of tokens.  Which of them means something is the   *)
(* parameter template's kind.                                              *)

PV(i) == [keys |-> {}, i |-> i, s |-> <<>>]
PS(s) == [keys |-> {}, i |-> 0, s |-> s]
PK(keys) == [keys |-> keys, i |-> 0, s |-> <<>>]

\* source_node.parms(), in order
ParmOrder ==
    <<"stdswitcher", "sopoutput", "output_profile", "ver", "types", "seqlabel",
      "trange", "f1", "soppath", "lpreframe">>

IsTk(type) == type = TK_GEOMETRY_NODE_TYPE
IsNative(type) == type \in {HOU_SOP_GEOMETRY_TYPE, HOU_ROP_GEOMETRY_TYPE}

\* The template of parameter `name` on a node of `type`: "none" when the node
\* has no such parameter (node.parm(name) is None).  The Toolkit node adds
\* output_profile, ver, types and seqlabel to those of the built-in node; the
\* pre/post script language menus are integer menus on the Toolkit node and,
\* on hosts from 16.5.439 on (h.strScripts), string menus on the built-in one.
ParmKind(type, h, name) ==
    IF type = NULL_TYPE
    THEN (IF name \in {"trange", "soppath", "lpreframe"} THEN "string"
          ELSE IF name = "f1" THEN "float" ELSE "none")
    ELSE IF ~(IsTk(type) \/ IsNative(type)) THEN "none"
    ELSE IF name = "stdswitcher" THEN "folder"
    ELSE IF name \in {"output_profile", "ver", "types"}
         THEN (IF IsTk(type) THEN "int" ELSE "none")
    ELSE IF name = "seqlabel" THEN (IF IsTk(type) THEN "string" ELSE "none")
    ELSE IF name \in {"sopoutput", "soppath"} THEN "string"
    ELSE IF name = "trange" THEN "int"
    ELSE IF name = "f1" THEN "float"
    ELSE IF name = "lpreframe"
         THEN (IF IsNative(type) /\ h.strScripts THEN "string" ELSE "int")
    ELSE "none"

ParmsOf(type, h) == {n \in {ParmOrder[k] : k \in 1..Len(ParmOrder)} :
                        ParmKind(type, h, n) # "none"}

\* The values of a newly created node's parameters.
DefaultParm(type, h, name) ==
    IF ParmKind(type, h, name) = "string"
    THEN (IF name = "lpreframe" THEN PS(<<"hscript">>) ELSE PS(<<>>))
    ELSE IF name \in {"ver", "f1"} THEN PV(1) ELSE PV(0)

DefaultParms(type, h) == [n \in ParmsOf(type, h) |-> DefaultParm(type, h, n)]

\* source_parm.name().startswith("lpre") or ...startswith("lpost")
IsLegacyScriptParm(name) == name \in {"lpreframe", "lpostframe"}

\* (mutant) the two languages the other way round
value_map_Mut == <<<<"python">>, <<"hscript">>>>

\* value_map of the fallback
value_map == <<<<"hscript">>, <<"python">>>>

\* (mutant) the keyframes of the source are not set on the target
SetKeyframes_Mut(keys, new) == keys

\* hou.Parm.setKeyframe: the key replaces the one at its frame
SetKeyframes(keys, new) == {k \in keys : \A n \in new : n.f # k.f} \cup new

\* target_parm.set(value) with a number: a string parameter refuses it
SetNumber(kind, parm, i) ==
    IF kind = "string" THEN [ok |-> FALSE, parm |-> parm]
    ELSE [ok |-> TRUE, parm |-> [parm EXCEPT !.i = i]]

\* target_parm.set(value) with a string: a string parameter takes it; an
\* integer menu takes it as a menu token when the host does (h.tokens)
SetString(kind, h, parm, s) ==
    IF kind = "string" THEN [ok |-> TRUE, parm |-> [parm EXCEPT !.s = s]]
    ELSE IF h.tokens /\ IndexOf(value_map, s) >= 0
         THEN [ok |-> TRUE, parm |-> [parm EXCEPT !.i = IndexOf(value_map, s)]]
    ELSE [ok |-> FALSE, parm |-> parm]

----------------------------------------------------------------------------
(* _copy_parm_values, handler.py:852-898 *)

\* One parameter of the loop: the target's parameters after it, and the
\* exception it raised (NoError when none).
CopyOneParm(h, src, dstType, dstParms, name) ==
    LET sp == src.parms[name]
        skind == ParmKind(src.type, h, name)
        dkind == ParmKind(dstType, h, name)
        asNumber == SetNumber(dkind, dstParms[name], sp.i)
        asString == SetString(dkind, h, dstParms[name], sp.s)
        mapped == SetString(dkind, h, dstParms[name], value_map[sp.i + 1])
        done(r) == [parms |-> [dstParms EXCEPT ![name] = r.parm], err |-> NoError]
        raise(e) == [parms |-> dstParms, err |-> e]
    IN  IF skind = "folder" \/ dkind = "none" THEN raise(NoError)
        ELSE IF sp.keys # {}
             THEN [parms |-> [dstParms EXCEPT
                        ![name] = PK(SetKeyframes(dstParms[name].keys, sp.keys))],
                   err |-> NoError]
        ELSE IF skind = "string"
             THEN (IF asString.ok THEN done(asString) ELSE raise("TypeError"))
        ELSE IF asNumber.ok THEN done(asNumber)
        ELSE IF ~IsLegacyScriptParm(name) THEN raise("TypeError")
        ELSE IF sp.i + 1 \notin DOMAIN value_map THEN raise("IndexError")
        ELSE IF mapped.ok THEN done(mapped) ELSE raise("TypeError")

RECURSIVE CopyParmLoop(_, _, _, _, _)
CopyParmLoop(h, src, dstType, acc, names) ==
    IF names = <<>> \/ acc.err # NoError THEN acc
    ELSE CopyParmLoop(h, src, dstType,
                      CopyOneParm(h, src, dstType, acc.parms, Head(names)),
                      Tail(names))

\* The source node's parameters that are copied, in order.
SourceParms(src, excludes) ==
    SelectSeq(ParmOrder, LAMBDA n : n \in DOMAIN src.parms /\ n \notin excludes)

_copy_parm_values(h, src, dst, excludes) ==
    CopyParmLoop(h, src, dst.type, [parms |-> dst.parms, err |-> NoError],
                 SourceParms(src, excludes))

----------------------------------------------------------------------------
(* The pipeline toolkit: work file template, cache and backup templates *)

\* The labels of the 'types' menu (handler.py:567-574)
ExtLabels == <<"bgeo.sc", "abc">>

\* The work files a session may have open.  "anon.hip" matches the work file
\* template without giving the optional 'name' field; "untitled.hip" and ""
\* do not match it.
HipFiles == {"shotA.hip", "shotB.hip", "anon.hip", "untitled.hip"}

\* work_file_template.validate(path)
WorkValidate(path) == path \in {"shotA.hip", "shotB.hip", "anon.hip"}

\* work_file_template.get_fields(path); "None" stands for an absent key
WorkGetFields(path) ==
    [name |-> IF path = "shotA.hip" THEN "shotA"
              ELSE IF path = "shotB.hip" THEN "shotB" ELSE "None"]

\* The templates of the configuration, by name; any other name is not one
\* (get_template_by_name returns None).
SeqTemplates == {"geo_cache_seq"}
FileTemplates == {"geo_cache_file", "geo_backup"}
KnownTemplate(t) == t \in SeqTemplates \cup FileTemplates

\* template.apply_fields(fields): the path, a string of tokens.  It raises the
\* toolkit error when a field the template needs has no value.
CanApply(t, f) == f.name # "None"
ApplyFields(t, f) ==
    <<t, f.name, f.node, ToString(f.version)>>
        \o (IF t \in SeqTemplates THEN <<"$F4">> ELSE <<>>) \o <<f.ext>>

\* template.get_fields(path)['version'] of a path ApplyFields made
PathVersion(path) == CHOOSE v \in 0..(MaxDiskVer + MaxVer + 2) : ToString(v) = path[4]

\* os.path.dirname(path): the path up to its version folder
DirName(path) == SubSeq(path, 1, 4)

----------------------------------------------------------------------------
(* The disk.  A cache file is [path, frame, pad, timed]: path is the path  *)
(* with its frame placeholder, frame the frame number (0 for a file that   *)
(* is no frame of a sequence), pad the way the frame is written in the     *)
(* file's name, timed whether an archive holds a time range.               *)

EmptyDisk == [files |-> {}, dirs |-> {}]

CacheFile(path, frame, pad, timed) ==
    [path |-> path, frame |-> frame, pad |-> pad, timed |-> timed]

\* sgtk.abstract_paths_from_template(template, fields): the abstract paths of
\* the files on disk that the template resolves to the fields given; a field
\* without a value is not compared, nor is the version, which is not given
abstract_paths_from_template(dsk, t, f) ==
    {file.path : file \in {x \in dsk.files :
        /\ x.path[1] = t
        /\ (f.name = "None" \/ x.path[2] = f.name)
        /\ x.path[3] = f.node
        /\ x.path[Len(x.path)] = f.ext}}

----------------------------------------------------------------------------
(* Private methods of the handler *)

\* _getNodeName, handler.py:684-689: underscores and minus signs are removed
\* and the name is camel-cased
_getNodeName(name) ==
    CASE name = "cache_a" -> "cacheA"
      [] name = "cache_b" -> "cacheB"
      [] name = "sgtk_geometry1" -> "sgtkGeometry1"
      [] name = "sgtk_geometry2" -> "sgtkGeometry2"
      [] name = "sgtk_geometry3" -> "sgtkGeometry3"
      [] name = "sgtk_geometry4" -> "sgtkGeometry4"
      [] name = "sgtk_geometry5" -> "sgtkGeometry5"
      [] name = "rop_geometry1" -> "ropGeometry1"
      [] name = "rop_geometry2" -> "ropGeometry2"
      [] name = "rop_geometry3" -> "ropGeometry3"
      [] name = "rop_geometry4" -> "ropGeometry4"
      [] name = "rop_geometry5" -> "ropGeometry5"
      [] OTHER -> name

\* _get_output_profile, handler.py:769-778
_get_output_profile(profs, node) == profs[node.parms["output_profile"].i + 1]

\* work_file_path of _get_hipfile_fields, handler.py:782-792: the session's
\* file with a UI, the NOZ_HIPFILE environment variable ("" when unset) without
WorkFilePath(h) == IF h.ui THEN h.hip ELSE h.env

\* (mutant) the fields are read without validating the path
_get_hipfile_fields_Mut(h) ==
    [fields |-> <<WorkGetFields(WorkFilePath(h))>>, log |-> <<>>]

\* _get_hipfile_fields, handler.py:781-800: <<>> is the empty dict
_get_hipfile_fields(h) ==
    LET work_file_path == WorkFilePath(h)
        log == IF ~h.ui /\ h.env = ""
               THEN <<"error: Could not find origin hip file!">> ELSE <<>>
    IN  [fields |-> IF h.workTemplate /\ WorkValidate(work_file_path)
                    THEN <<WorkGetFields(work_file_path)>> ELSE <<>>,
         log |-> log]

\* The fields dict of _compute_output_path, handler.py:738-746
OutputFields(h, profs, node) ==
    [name |-> _get_hipfile_fields(h).fields[1].name,
     node |-> _getNodeName(node.name),
     version |-> node.parms["ver"].i,
     ext |-> ExtLabels[node.parms["types"].i + 1],
     SEQ |-> "FORMAT: $F",
     output_profile |-> _get_output_profile(profs, node),
     hipfile |-> h.hip]

\* (mutant) the cached fields are compared without the hip file path
FieldsCached_Mut(node, fields) ==
    /\ node.cachedFields # <<>>
    /\ [node.cachedFields[1] EXCEPT !.hipfile = fields.hipfile] = fields

\* "cachedFields != fields" negated, handler.py:749-750
FieldsCached(node, fields) == node.cachedFields = <<fields>>

\* _compute_output_path, handler.py:725-766.  The result: the node (its
\* cached user data), the exception raised, the path returned (<<>> is None)
\* and whether the template was applied.
_compute_output_path(h, profs, node) ==
    LET wf == _get_hipfile_fields(h)
        fields == OutputFields(h, profs, node)
        tmpl == fields.output_profile.output_cache_template
        path == ApplyFields(tmpl, fields)
        stored == [node EXCEPT !.cachedFields = <<fields>>]
        res(n, e, p, a) ==
            [node |-> n, err |-> e, path |-> p, applied |-> a, log |-> wf.log]
    IN  IF wf.fields = <<>> THEN res(node, "TankError", <<>>, FALSE)
        ELSE IF FieldsCached(node, fields)
             THEN res(node, NoError, node.pathCache, FALSE)
        ELSE IF ~KnownTemplate(tmpl) THEN res(stored, "AttributeError", <<>>, FALSE)
        ELSE IF ~CanApply(tmpl, fields) THEN res(stored, "TankError", <<>>, TRUE)
        ELSE res([stored EXCEPT !.pathCache = path], NoError, path, TRUE)

\* _compute_backup_output_path, handler.py:692-722
_compute_backup_output_path(h, profs, node) ==
    LET wf == _get_hipfile_fields(h)
        fields == [name |-> wf.fields[1].name,
                   node |-> _getNodeName(node.name),
                   version |-> node.parms["ver"].i,
                   ext |-> ExtLabels[node.parms["types"].i + 1]]
        tmpl == _get_output_profile(profs, node).output_backup_template
        res(e, p) == [err |-> e, path |-> p, log |-> wf.log]
    IN  IF wf.fields = <<>> THEN res("TankError", <<>>)
        ELSE IF ~KnownTemplate(tmpl) THEN res("AttributeError", <<>>)
        ELSE IF ~CanApply(tmpl, fields) THEN res("TankError", <<>>)
        ELSE res(NoError, ApplyFields(tmpl, fields))

----------------------------------------------------------------------------
(* The host's node graph.  A node's inputs are a function from the input   *)
(* index (0-based) to the node id connected there, 0 for none; outputs are *)
(* the inputs of the other nodes.  A node's path is its name.              *)

\* len(node.inputConnectors())
InputSlots(type, cat) ==
    IF type = MERGE_TYPE THEN 2
    ELSE IF type = TK_GEOMETRY_NODE_TYPE /\ cat = "Rop" THEN 2
    ELSE 1

\* The name createNode gives the node with id `id`
DefaultName(type, id) ==
    IF type = TK_GEOMETRY_NODE_TYPE
    THEN <<"sgtk_geometry1", "sgtk_geometry2", "sgtk_geometry3",
           "sgtk_geometry4", "sgtk_geometry5", "sgtk_geometry6">>[id]
    ELSE IF type = HOU_SOP_GEOMETRY_TYPE
    THEN <<"rop_geometry1", "rop_geometry2", "rop_geometry3",
           "rop_geometry4", "rop_geometry5", "rop_geometry6">>[id]
    ELSE <<"geometry1", "geometry2", "geometry3",
           "geometry4", "geometry5", "geometry6">>[id]

NoUserData == [tk_output_profile_name |-> "", tk_output_connections |-> <<>>]

NewNode(h, type, cat, id) ==
    [type |-> type, cat |-> cat, name |-> DefaultName(type, id),
     pos |-> 0, color |-> "grey",
     parms |-> DefaultParms(type, h),
     user |-> NoUserData,
     inputs |-> [k \in 0..(InputSlots(type, cat) - 1) |-> 0],
     cachedFields |-> <<>>, pathCache |-> <<>>]

FreshId(ns) == Min((1..MaxNodes) \ DOMAIN ns)

\* parent.createNode(type): the new node's id is FreshId(ns)
createNode(ns, h, type, cat) ==
    ns @@ (FreshId(ns) :> NewNode(h, type, cat, FreshId(ns)))

\* node.destroy(): the node goes, and so do the connections to it
destroy(ns, id) ==
    [m \in DOMAIN ns \ {id} |->
        [ns[m] EXCEPT !.inputs =
            [k \in DOMAIN ns[m].inputs |->
                IF ns[m].inputs[k] = id THEN 0 ELSE ns[m].inputs[k]]]]

\* hou.node(path): the node's id, 0 for None
NodeAt(ns, path) ==
    IF \E m \in DOMAIN ns : ns[m].name = path
    THEN CHOOSE m \in DOMAIN ns : ns[m].name = path
    ELSE 0

\* node.inputConnections(): in input order
inputConnections(ns, id) ==
    LET used == {k \in DOMAIN ns[id].inputs : ns[id].inputs[k] # 0}
        order == SetToSeq(used)
    IN  [j \in 1..Len(order) |->
            [inputIndex |-> order[j], inputNode |-> ns[id].inputs[order[j]]]]

\* node.outputConnections(): by output node, then by its input index
AllSlots == [j \in 1..(2 * MaxNodes) |->
                [outputNode |-> ((j - 1) \div 2) + 1, inputIndex |-> (j - 1) % 2]]

outputConnections(ns, id) ==
    SelectSeq(AllSlots, LAMBDA c :
        /\ c.outputNode \in DOMAIN ns
        /\ c.inputIndex \in DOMAIN ns[c.outputNode].inputs
        /\ ns[c.outputNode].inputs[c.inputIndex] = id)

\* node.setInput(index, source): hou.InvalidInput when the node has no such input
setInput(g, m, index, source) ==
    IF g.err # NoError THEN g
    ELSE IF m = 0 THEN [g EXCEPT !.err = "AttributeError"]
    ELSE IF index \notin DOMAIN g.ns[m].inputs THEN [g EXCEPT !.err = "InvalidInput"]
    ELSE [g EXCEPT !.ns[m].inputs[index] = source]

----------------------------------------------------------------------------
(* Utility methods, handler.py:836-967 *)

RECURSIVE SetInputs(_, _, _)
SetInputs(g, target, conns) ==
    IF conns = <<>> THEN g
    ELSE SetInputs(setInput(g, target, Head(conns).inputIndex, Head(conns).inputNode),
                   target, Tail(conns))

\* (mutant) too many input connections are passed over instead of raised
_copy_inputs_Mut(g, source, target) ==
    IF Len(inputConnections(g.ns, source)) > Cardinality(DOMAIN g.ns[target].inputs)
    THEN g
    ELSE SetInputs(g, target, inputConnections(g.ns, source))

\* _copy_inputs, handler.py:836-848
_copy_inputs(g, source, target) ==
    IF Len(inputConnections(g.ns, source)) > Cardinality(DOMAIN g.ns[target].inputs)
    THEN [g EXCEPT !.err = "InvalidInput"]
    ELSE SetInputs(g, target, inputConnections(g.ns, source))

RECURSIVE MoveOutputs(_, _, _)
MoveOutputs(g, target, conns) ==
    IF conns = <<>> THEN g
    ELSE MoveOutputs(setInput(g, Head(conns).outputNode, Head(conns).inputIndex, target),
                     target, Tail(conns))

\* _move_outputs, handler.py:910-913
_move_outputs(g, source, target) ==
    MoveOutputs(g, target, outputConnections(g.ns, source))

\* The "sgtk-01" codec, handler.py:60-67: the list of {node, input} dicts
\* becomes a flat string over an alphabet without ":", and back
Digit(s) == CHOOSE i \in 0..9 : ToString(i) = s

RECURSIVE encode(_)
encode(outputs) ==
    IF outputs = <<>> THEN <<>>
    ELSE <<Head(outputs).node, ToString(Head(outputs).input)>> \o encode(Tail(outputs))

\* (mutant) the decoded list comes out in reverse order
decode_Mut(data_str) ==
    [j \in 1..(Len(data_str) \div 2) |->
        [node |-> data_str[Len(data_str) - 2 * j + 1],
         input |-> Digit(data_str[Len(data_str) - 2 * j + 2])]]

decode(data_str) ==
    [j \in 1..(Len(data_str) \div 2) |->
        [node |-> data_str[2 * j - 1], input |-> Digit(data_str[2 * j])]]

\* TK_OUTPUT_CONNECTION_CODECS has one codec
IsCodec(codec_name) == codec_name = TK_OUTPUT_CONNECTION_CODEC

\* The list _save_outputs_to_user_data builds, handler.py:922-928
OutputDicts(ns, source) ==
    LET conns == outputConnections(ns, source)
    IN  [j \in 1..Len(conns) |->
            [node |-> ns[conns[j].outputNode].name, input |-> conns[j].inputIndex]]

\* _save_outputs_to_user_data, handler.py:917-939
_save_outputs_to_user_data(g, source, target) ==
    IF outputConnections(g.ns, source) = <<>> THEN g
    ELSE [g EXCEPT !.ns[target].user.tk_output_connections =
            TK_OUTPUT_CONNECTION_CODEC \o <<":">> \o encode(OutputDicts(g.ns, source))]

\* data_str.find(":"), data_str[:sep_index] and data_str[sep_index + 1:]
SepIndex(data_str) == IndexOf(data_str, ":")
CodecName(data_str) ==
    IF SepIndex(data_str) >= 0 THEN SubSeq(data_str, 1, SepIndex(data_str))
    ELSE SubSeq(data_str, 1, Len(data_str) - 1)
Payload(data_str) == SubSeq(data_str, SepIndex(data_str) + 2, Len(data_str))

RECURSIVE RestoreOutputs(_, _, _)
RestoreOutputs(g, target, outputs) ==
    IF outputs = <<>> THEN g
    ELSE RestoreOutputs(
            setInput(g, NodeAt(g.ns, Head(outputs).node), Head(outputs).input, target),
            target, Tail(outputs))

\* _restore_outputs_from_user_data, handler.py:942-967
_restore_outputs_from_user_data(g, source, target) ==
    LET data_str == g.ns[source].user.tk_output_connections
    IN  IF data_str = <<>> THEN g
        ELSE IF ~IsCodec(CodecName(data_str)) THEN [g EXCEPT !.err = "KeyError"]
        ELSE RestoreOutputs(g, target, decode(Payload(data_str)))

----------------------------------------------------------------------------
(* TkGeometryNodeHandler.__init__, handler.py:292-318 *)

ProfileNamesOf(table) == [j \in 1..Len(table) |-> table[j].name]

\* (mutant) a later definition replaces the one loaded under its name
RECURSIVE LoadProfiles_Mut(_, _)
LoadProfiles_Mut(settings, acc) ==
    IF settings = <<>> THEN acc
    ELSE IF IndexOf(ProfileNamesOf(acc.table), Head(settings).name) >= 0
    THEN LoadProfiles_Mut(Tail(settings),
            [table |-> [acc.table EXCEPT
                            ![IndexOf(ProfileNamesOf(acc.table), Head(settings).name) + 1]
                                = Head(settings)],
             log |-> Append(acc.log, "warning: multiple output profiles")])
    ELSE LoadProfiles_Mut(Tail(settings),
            [table |-> Append(acc.table, Head(settings)),
             log |-> Append(acc.log, "debug: caching profile")])

RECURSIVE LoadProfiles(_, _)
LoadProfiles(settings, acc) ==
    IF settings = <<>> THEN acc
    ELSE IF IndexOf(ProfileNamesOf(acc.table), Head(settings).name) >= 0
    THEN LoadProfiles(Tail(settings),
            [acc EXCEPT !.log = Append(@, "warning: multiple output profiles")])
    ELSE LoadProfiles(Tail(settings),
            [table |-> Append(acc.table, Head(settings)),
             log |-> Append(acc.log, "debug: caching profile")])

\* get_output_profile_menu_labels, handler.py:350-355
MenuLabels(profs) == ProfileNamesOf(profs)

\* (mutant) a name that is no label selects the first item
ProfileIndex_Mut(profs, name) ==
    IF IndexOf(MenuLabels(profs), name) < 0 THEN 0 ELSE IndexOf(MenuLabels(profs), name)

\* output_profile_parm.menuLabels().index(name), handler.py:134-139: -1 is
\* the ValueError
ProfileIndex(profs, name) == IndexOf(MenuLabels(profs), name)

\* (mutant) every geometry node counts as a former Toolkit node
HasProfileName_Mut(geo) == TRUE

\* "if not tk_output_profile_name" negated, handler.py:114-120
HasProfileName(geo) == geo.user.tk_output_profile_name # ""

----------------------------------------------------------------------------
(* Conversion between Toolkit and built-in geometry nodes.  A conversion   *)
(* state g holds the graph ns, the exception raised err (NoError when      *)
(* none), the log of the call and the nodes converted by the call: their   *)
(* names and the output connections they had.                              *)

\* hou.nodeType(category, type).instances(), surface operators first
Instances(ns, types) ==
    SetToSeq({m \in DOMAIN ns : ns[m].type \in types /\ ns[m].cat = "Sop"})
        \o SetToSeq({m \in DOMAIN ns : ns[m].type \in types /\ ns[m].cat = "Rop"})

\* handler.py:363-375, after _compute_output_path gave r: the menu, and the
\* write of 'sopoutput_child' with the local variable path.  path is bound
\* only when the try block ended; parm.set(None) is a TypeError
MenuItems(h, r) ==
    IF r.err = NoError
    THEN IF ~h.ui
         THEN [node |-> r.node, err |-> NoError, menu |-> r.path, log |-> r.log]
         ELSE IF r.path = <<>>
         THEN [node |-> r.node, err |-> "TypeError", menu |-> <<>>, log |-> r.log]
         ELSE [node |-> r.node, err |-> NoError, menu |-> r.path,
               log |-> Append(r.log, "set: sopoutput_child")]
    ELSE IF r.err = "TankError"
    THEN IF ~h.ui
         THEN [node |-> r.node, err |-> NoError, menu |-> <<"ERROR">>,
               log |-> Append(r.log, "error: unable to construct the menu items")]
         ELSE [node |-> r.node, err |-> "UnboundLocalError", menu |-> <<>>,
               log |-> Append(r.log, "error: unable to construct the menu items")]
    ELSE [node |-> r.node, err |-> r.err, menu |-> <<>>, log |-> r.log]

get_output_path_menu_items(h, profs, node) ==
    MenuItems(h, _compute_output_path(h, profs, node))

\* _get_output_menu_label, handler.py:901-907, of the Toolkit node's output
\* path menu: the label of the one item get_output_path_menu_items gives
OutputMenuLabel(h, profs, node) == get_output_path_menu_items(h, profs, node).menu

\* geometry_operator, handler.py:209-215
GeometryOperator(cat) ==
    IF cat = "Sop" THEN HOU_SOP_GEOMETRY_TYPE ELSE HOU_ROP_GEOMETRY_TYPE

\* The end of a turn of the loop of convert_to_regular_geometry_nodes,
\* handler.py:249-262: the colour, destroy(), the name and the position
ToRegularDone(g, t, gid, moved) ==
    IF moved.err # NoError THEN moved
    ELSE [g EXCEPT
            !.ns = [destroy([moved.ns EXCEPT ![gid].color = g.ns[t].color], t)
                        EXCEPT ![gid].name = g.ns[t].name, ![gid].pos = g.ns[t].pos],
            !.log = Append(@, "debug: converted to Geometry node"),
            !.conv = @ \cup {[name |-> g.ns[t].name, outs |-> OutputDicts(g.ns, t)]}]

\* handler.py:242-247: the outputs are saved or moved
ToRegularMoved(g, t, gid, wired) ==
    IF wired.err # NoError THEN wired
    ELSE ToRegularDone(g, t, gid,
            IF GeometryOperator(g.ns[t].cat) = HOU_SOP_GEOMETRY_TYPE
            THEN _save_outputs_to_user_data(wired, t, gid)
            ELSE _move_outputs(wired, t, gid))

\* handler.py:229-239: the profile name is stored and the inputs are copied
ToRegularWired(profs, g, t, gid, named, copy) ==
    IF copy.err # NoError
    THEN [g EXCEPT !.ns = [named EXCEPT ![gid].parms = copy.parms], !.err = copy.err]
    ELSE ToRegularMoved(g, t, gid,
            _copy_inputs(
                [g EXCEPT !.ns = [named EXCEPT
                    ![gid].parms = copy.parms,
                    ![gid].user.tk_output_profile_name =
                        MenuLabels(profs)[g.ns[t].parms[TK_OUTPUT_PROFILE_PARM].i + 1]]],
                t, gid))

\* handler.py:225-226: the parameters are copied
ToRegularCopied(h, profs, g, t, gid, named) ==
    ToRegularWired(profs, g, t, gid, named,
        _copy_parm_values(h, g.ns[t], named[gid], {NODE_OUTPUT_PATH_PARM}))

\* One turn of the loop of convert_to_regular_geometry_nodes, handler.py:206-262,
\* from its start: the new node and its output path, handler.py:206-222
ToRegularNode(h, profs, g, t) ==
    ToRegularCopied(h, profs, g, t, FreshId(g.ns),
        [createNode(g.ns, h, GeometryOperator(g.ns[t].cat), g.ns[t].cat) EXCEPT
            ![FreshId(g.ns)].parms[NODE_OUTPUT_PATH_PARM] =
                PS(OutputMenuLabel(h, profs, g.ns[t]))])

\* The end of a turn of the loop of convert_back_to_tk_geometry_nodes,
\* handler.py:156-174: the colour, destroy(), the name and the position
ToTkDone(g, n, tid, log1, moved) ==
    IF moved.err # NoError THEN moved
    ELSE [g EXCEPT
            !.ns = [destroy([moved.ns EXCEPT ![tid].color = g.ns[n].color], n)
                        EXCEPT ![tid].name = g.ns[n].name, ![tid].pos = g.ns[n].pos],
            !.log = Append(log1, "debug: converted to TK Geometry node"),
            !.conv = @ \cup {[name |-> g.ns[n].name, outs |-> <<>>]}]

\* handler.py:150-154: the outputs are restored or moved
ToTkMoved(g, n, tid, log1, wired) ==
    IF wired.err # NoError THEN wired
    ELSE ToTkDone(g, n, tid, log1,
            IF g.ns[n].type = HOU_SOP_GEOMETRY_TYPE
            THEN _restore_outputs_from_user_data(wired, n, tid)
            ELSE _move_outputs(wired, n, tid))

\* handler.py:147-148: the inputs are copied
ToTkWired(g, n, tid, log1, selected, copy) ==
    IF copy.err # NoError
    THEN [g EXCEPT !.ns = [selected EXCEPT ![tid].parms = copy.parms],
                   !.log = log1, !.err = copy.err]
    ELSE ToTkMoved(g, n, tid, log1,
            _copy_inputs([g EXCEPT !.ns = [selected EXCEPT ![tid].parms = copy.parms],
                                   !.log = log1], n, tid))

\* handler.py:143-144: the parameters are copied
ToTkCopied(h, g, n, tid, log1, selected) ==
    ToTkWired(g, n, tid, log1, selected,
        _copy_parm_values(h, g.ns[n], selected[tid], {NODE_OUTPUT_PATH_PARM}))

\* handler.py:129-141: the new node and its output profile; a name that is
\* not in the menu is logged, and the turn goes on
ToTkSelected(h, g, n, tid, created, output_profile_index) ==
    IF output_profile_index >= 0
    THEN ToTkCopied(h, g, n, tid, g.log,
            [created EXCEPT ![tid].parms[TK_OUTPUT_PROFILE_PARM] = PV(output_profile_index)])
    ELSE ToTkCopied(h, g, n, tid, Append(g.log, "warning: No output profile found"),
            created)

\* One turn of the loop of convert_back_to_tk_geometry_nodes, handler.py:111-174,
\* from its start: a node without a stored profile name is passed over
ToTkNode(h, profs, g, n) ==
    IF ~HasProfileName(g.ns[n])
    THEN [g EXCEPT !.log = Append(@, "warning: no output profile name")]
    ELSE ToTkSelected(h, g, n, FreshId(g.ns),
            createNode(g.ns, h, TK_GEOMETRY_NODE_TYPE, g.ns[n].cat),
            ProfileIndex(profs, g.ns[n].user.tk_output_profile_name))

RECURSIVE ToRegularLoop(_, _, _, _)
ToRegularLoop(h, profs, g, ids) ==
    IF ids = <<>> \/ g.err # NoError THEN g
    ELSE ToRegularLoop(h, profs, ToRegularNode(h, profs, g, Head(ids)), Tail(ids))

RECURSIVE ToTkLoop(_, _, _, _)
ToTkLoop(h, profs, g, ids) ==
    IF ids = <<>> \/ g.err # NoError THEN g
    ELSE ToTkLoop(h, profs, ToTkNode(h, profs, g, Head(ids)), Tail(ids))

StartConv(ns) == [ns |-> ns, err |-> NoError, log |-> <<>>, conv |-> {}]

\* convert_to_regular_geometry_nodes, handler.py:177-262
convert_to_regular_geometry_nodes(h, profs, ns) ==
    IF Instances(ns, {TK_GEOMETRY_NODE_TYPE}) = <<>>
    THEN [StartConv(ns) EXCEPT !.log = <<"debug: No Toolkit Geometry Nodes found">>]
    ELSE ToRegularLoop(h, profs, StartConv(ns), Instances(ns, {TK_GEOMETRY_NODE_TYPE}))

\* convert_back_to_tk_geometry_nodes, handler.py:86-174
convert_back_to_tk_geometry_nodes(h, profs, ns) ==
    IF Instances(ns, {HOU_SOP_GEOMETRY_TYPE, HOU_ROP_GEOMETRY_TYPE}) = <<>>
    THEN [StartConv(ns) EXCEPT !.log = <<"debug: No Geometry Nodes found">>]
    ELSE ToTkLoop(h, profs, StartConv(ns),
                  Instances(ns, {HOU_SOP_GEOMETRY_TYPE, HOU_ROP_GEOMETRY_TYPE}))

----------------------------------------------------------------------------
(* The scenes and configurations a session starts from *)

ProfBgeo ==
    [name |-> "Bgeo", color |-> "blue",
     output_cache_template |-> "geo_cache_seq",
     output_backup_template |-> "geo_backup"]
ProfAbc ==
    [name |-> "Alembic", color |-> "purple",
     output_cache_template |-> "geo_cache_file",
     output_backup_template |-> "geo_backup"]
\* a second definition under the name of the first
ProfBgeoAgain ==
    [name |-> "Bgeo", color |-> "orange",
     output_cache_template |-> "geo_cache_file",
     output_backup_template |-> "geo_backup"]
\* a profile whose cache template the configuration does not define
ProfOld ==
    [name |-> "Old", color |-> "blue",
     output_cache_template |-> "geo_cache_old",
     output_backup_template |-> "geo_backup"]

\* The result of a handler call, as the later states see it
Ret(op, node, err, path, applied, log, conv) ==
    [op |-> op, node |-> node, err |-> err, path |-> path,
     applied |-> applied, log |-> log, conv |-> conv]

Constructed(settings) == LoadProfiles(settings, [table |-> <<>>, log |-> <<>>])

SceneNames == {"cache_a", "cache_b"}
NoSnap == [x \in SceneNames |-> <<>>]

TkKinds == {"tk_default", "tk_edited", "tk_keyed"}
GeoKinds == {"geo_valid", "geo_stale", "geo_plain"}

\* The parameters of a scene's geometry node of the given kind
SceneParms(h, profs, type, kind) ==
    LET d == DefaultParms(type, h)
    IN  CASE kind = "tk_edited" ->
                [d EXCEPT !["ver"] = PV(MaxVer), !["f1"] = PV(5),
                          !["lpreframe"] = PV(1), !["trange"] = PV(1),
                          !["soppath"] = PS(<<"/obj/geo1/OUT">>),
                          !["output_profile"] = PV(Len(profs) - 1)]
          [] kind = "tk_keyed" ->
                [d EXCEPT !["f1"] = PK({[f |-> 1, v |-> 3], [f |-> 2, v |-> 4]})]
          [] kind \in GeoKinds ->
                [d EXCEPT !["f1"] = PV(7),
                          !["sopoutput"] = PS(<<"$HIP/geo/out.bgeo.sc">>)]
          [] OTHER -> d

SceneNode(h, profs, cat, kind, id, name, inputs) ==
    LET type == IF kind \in TkKinds THEN TK_GEOMETRY_NODE_TYPE
                ELSE IF kind = "merge" THEN MERGE_TYPE
                ELSE IF cat = "Sop" THEN HOU_SOP_GEOMETRY_TYPE
                ELSE HOU_ROP_GEOMETRY_TYPE
        fresh == NewNode(h, type, cat, id)
    IN  [fresh EXCEPT
            !.name = name, !.pos = id,
            !.color = IF kind \in TkKinds THEN "blue" ELSE "grey",
            !.parms = IF kind = "merge" THEN @ ELSE SceneParms(h, profs, type, kind),
            !.user.tk_output_profile_name =
                IF kind = "geo_valid" THEN "Alembic"
                ELSE IF kind = "geo_stale" THEN "Old" ELSE "",
            !.inputs = [k \in DOMAIN @ |-> IF k + 1 <= Len(inputs) THEN inputs[k + 1] ELSE 0]]

\* The ways the second geometry node is wired to the first (1) and the merge (3)
Wirings(type, cat) ==
    IF InputSlots(type, cat) = 1 THEN {<<0>>, <<1>>, <<3>>}
    ELSE {<<0, 0>>, <<1, 0>>, <<0, 3>>, <<1, 3>>}

\* The hosts of the conversion scenes: before 16.5.439 the script language
\* menus are integer menus everywhere; later hosts may or may not take a
\* language name for the Toolkit node's integer menu.
ConvHosts ==
    {[ui |-> TRUE, hip |-> "shotA.hip", env |-> "", workTemplate |-> TRUE,
      strScripts |-> st[1], tokens |-> st[2],
      platform |-> "linux2"] :
        st \in {<<FALSE, FALSE>>, <<TRUE, TRUE>>, <<TRUE, FALSE>>}}

ConvSettings == {<<ProfBgeo, ProfAbc>>}

InitConv ==
    \E h \in ConvHosts, settings \in ConvSettings, cat \in {"Sop", "Rop"},
       k1 \in TkKinds \cup GeoKinds, k2 \in TkKinds \cup GeoKinds \cup {"absent"},
       w3 \in {<<0, 0>>, <<1, 0>>, <<0, 1>>, <<1, 1>>} :
      LET profs == Constructed(settings).table
          type2 == IF k2 \in TkKinds THEN TK_GEOMETRY_NODE_TYPE ELSE HOU_SOP_GEOMETRY_TYPE
          \* the built-in surface operator has no output to wire
          wired1 == ~(cat = "Sop" /\ k1 \in GeoKinds)
      IN  \E w2 \in Wirings(type2, cat) :
            /\ wired1 \/ (\A j \in 1..2 : w3[j] # 1 /\ (j <= Len(w2) => w2[j] # 1))
            /\ host = h
            /\ profiles = profs
            /\ nodes =
                 LET n1 == 1 :> SceneNode(h, profs, cat, k1, 1, "cache_a", <<>>)
                     n3 == 3 :> SceneNode(h, profs, cat, "merge", 3, "merge1", w3)
                     n2 == 2 :> SceneNode(h, profs, cat, k2, 2, "cache_b", w2)
                 IN  IF k2 = "absent" THEN n1 @@ n3 ELSE n1 @@ n2 @@ n3
            /\ disk = EmptyDisk
            /\ publishes = <<>>
            /\ ret = Ret("__init__", 0, NoError, <<>>, FALSE, Constructed(settings).log, {})
            /\ snap = NoSnap
            /\ sessions = NoSessions
            /\ config = settings

----------------------------------------------------------------------------
(* The conversion actions *)

\* What a Toolkit node was before convert_to_regular_geometry_nodes
Converted(g) == {c.name : c \in g.conv}

Snapshot(ns, g, name) ==
    [parms |-> ns[NodeAt(ns, name)].parms,
     outs |-> (CHOOSE c \in g.conv : c.name = name).outs,
     back |-> FALSE]

ConvertToRegular ==
    /\ Cardinality(DOMAIN nodes) < MaxNodes
    /\ \E g \in {convert_to_regular_geometry_nodes(host, profiles, nodes)} :
           /\ nodes' = g.ns
           /\ ret' = Ret("convert_to_regular", 0, g.err, <<>>, FALSE, g.log, Converted(g))
           /\ snap' = [x \in DOMAIN snap |->
                         IF x \in Converted(g) THEN <<Snapshot(nodes, g, x)>>
                         ELSE snap[x]]
    /\ UNCHANGED <<profiles, host, disk, publishes, sessions, config>>

ConvertBack ==
    /\ Cardinality(DOMAIN nodes) < MaxNodes
    /\ \E g \in {convert_back_to_tk_geometry_nodes(host, profiles, nodes)} :
           /\ nodes' = g.ns
           /\ ret' = Ret("convert_back", 0, g.err, <<>>, FALSE, g.log, Converted(g))
           /\ snap' = [x \in DOMAIN snap |->
                         IF x \in Converted(g) /\ snap[x] # <<>>
                         THEN <<[snap[x][1] EXCEPT !.back = TRUE]>> ELSE snap[x]]
    /\ UNCHANGED <<profiles, host, disk, publishes, sessions, config>>

NextConv == ConvertToRegular \/ ConvertBack

SpecConv == InitConv /\ [][NextConv]_vars

----------------------------------------------------------------------------
(* Claims about the conversion *)

\* The Toolkit nodes that went through both conversions, with what they were
RoundTripped ==
    {m \in DOMAIN nodes :
        /\ IsTk(nodes[m].type)
        /\ nodes[m].name \in DOMAIN snap
        /\ snap[nodes[m].name] # <<>>
        /\ snap[nodes[m].name][1].back}

Before(m) == snap[nodes[m].name][1]

\* The parameters the built-in node of the same category has too
SharedParms(m) ==
    {p \in DOMAIN nodes[m].parms :
        ParmKind(IF nodes[m].cat = "Sop" THEN HOU_SOP_GEOMETRY_TYPE
                 ELSE HOU_ROP_GEOMETRY_TYPE, host, p) # "none"}

\* C1 as claimed: after convert_to_regular_geometry_nodes and then
\* convert_back_to_tk_geometry_nodes, every parameter of the Toolkit node
\* other than 'sopoutput' has the value it had before the first conversion.
C1_RoundTripAllParms ==
    \A m \in RoundTripped :
        \A p \in DOMAIN nodes[m].parms \ {NODE_OUTPUT_PATH_PARM} :
            nodes[m].parms[p] = Before(m).parms[p]

\* C1, amended: after the two conversions, every parameter other than
\* 'sopoutput' that the built-in geometry node has under the same name, and
\* the output profile selection, has the value it had before the first
\* conversion; the other parameters of the Toolkit node (ver, types) are
\* those of a newly created node.
C1_RoundTripSharedParms ==
    \A m \in RoundTripped :
        /\ \A p \in (SharedParms(m) \cup {TK_OUTPUT_PROFILE_PARM}) \ {NODE_OUTPUT_PATH_PARM} :
                nodes[m].parms[p] = Before(m).parms[p]
        /\ \A p \in DOMAIN nodes[m].parms \ (SharedParms(m) \cup {TK_OUTPUT_PROFILE_PARM}) :
                nodes[m].parms[p] = DefaultParm(TK_GEOMETRY_NODE_TYPE, host, p)

\* C1 witness: a round-tripped node whose shared parameters, keyframes and
\* legacy script menu included, were not the defaults
C1_Witness ==
    \E m \in RoundTripped :
        /\ Before(m).parms["f1"] # PV(1)
        /\ Before(m).parms["lpreframe"] = PV(1)
        /\ Before(m).parms["output_profile"] # PV(0)
        /\ host.strScripts

Range(seq) == {seq[j] : j \in 1..Len(seq)}

\* C5: the output connections of a Toolkit surface-operator node survive the
\* two conversions.  The string _save_outputs_to_user_data stored splits at
\* its first ":" into the codec's name and a payload that decodes to exactly
\* the ordered list of {node path, input index} that was saved; and after
\* the reverse conversion every listed input of every listed node is
\* connected to the Toolkit node the conversion created.
C5_OutputsRoundTrip ==
    /\ \A m \in DOMAIN nodes :
        LET data_str == nodes[m].user.tk_output_connections
            x == nodes[m].name
        IN  (/\ nodes[m].type = HOU_SOP_GEOMETRY_TYPE
             /\ data_str # <<>>
             /\ x \in DOMAIN snap /\ snap[x] # <<>> /\ ~snap[x][1].back)
            => /\ IsCodec(CodecName(data_str))
               /\ decode(Payload(data_str)) = snap[x][1].outs
    /\ \A m \in RoundTripped :
        nodes[m].cat = "Sop" =>
            \A c \in Range(Before(m).outs) :
                /\ NodeAt(nodes, c.node) # 0
                /\ nodes[NodeAt(nodes, c.node)].inputs[c.input] = m

\* C5 witness: a Toolkit surface-operator node that had two output
\* connections, on different inputs, and went through both conversions
C5_Witness ==
    \E m \in RoundTripped :
        /\ nodes[m].cat = "Sop"
        /\ Len(Before(m).outs) >= 2
        /\ \E c, d \in Range(Before(m).outs) : c.input # d.input

----------------------------------------------------------------------------
(* What one conversion call did, as a relation between the graph before    *)
(* and after it.  A node is the same node after the call when a node of    *)
(* its name and type is there.                                             *)

IsConvCall == ret'.op \in {"convert_to_regular", "convert_back"}

Gone(m) ==
    ~\E k \in DOMAIN nodes' :
        nodes'[k].name = nodes[m].name /\ nodes'[k].type = nodes[m].type

Counterpart(type, cat) ==
    IF IsTk(type)
    THEN (IF cat = "Sop" THEN HOU_SOP_GEOMETRY_TYPE ELSE HOU_ROP_GEOMETRY_TYPE)
    ELSE TK_GEOMETRY_NODE_TYPE

\* The nodes the call goes through
IsSource(m) ==
    IF ret'.op = "convert_to_regular" THEN IsTk(nodes[m].type)
    ELSE IsNative(nodes[m].type) /\ nodes[m].user.tk_output_profile_name # ""

\* The paths of a node's inputs, by input index ("" for no connection)
InputPaths(ns, m) ==
    [k \in DOMAIN ns[m].inputs |->
        IF ns[m].inputs[k] = 0 THEN "" ELSE ns[ns[m].inputs[k]].name]

\* The output connections of a node, as {node path, input index}
OutputSet(ns, m) == Range(OutputDicts(ns, m))

\* The output connections the replacement k holds for the original m: its
\* own, or those saved in its user data
HeldOutputs(ns, k) ==
    IF ns[k].type = HOU_SOP_GEOMETRY_TYPE
    THEN (IF ns[k].user.tk_output_connections = <<>> THEN {}
          ELSE Range(decode(Payload(ns[k].user.tk_output_connections))))
    ELSE OutputSet(ns, k)

\* The outputs the original m has to hand over: its own, or those saved
OwedOutputs(ns, m) ==
    IF ns[m].type = HOU_SOP_GEOMETRY_TYPE
    THEN (IF ns[m].user.tk_output_connections = <<>> THEN {}
          ELSE Range(decode(Payload(ns[m].user.tk_output_connections))))
    ELSE OutputSet(ns, m)

\* k replaces m with everything transferred: the parameters of both, the
\* input connections (one that comes from a converted surface operator is
\* held in that node's user data instead) and the output connections
Replaces(k, m) ==
    /\ nodes'[k].name = nodes[m].name
    /\ nodes'[k].type = Counterpart(nodes[m].type, nodes[m].cat)
    /\ \A p \in (DOMAIN nodes[m].parms \cap DOMAIN nodes'[k].parms)
                    \ {NODE_OUTPUT_PATH_PARM, "lpreframe"} :
            nodes'[k].parms[p] = nodes[m].parms[p]
    /\ \A j \in DOMAIN nodes[m].inputs :
            InputPaths(nodes, m)[j] # "" =>
                \/ /\ j \in DOMAIN nodes'[k].inputs
                   /\ InputPaths(nodes', k)[j] = InputPaths(nodes, m)[j]
                \/ \E r \in DOMAIN nodes' :
                        /\ nodes'[r].name = InputPaths(nodes, m)[j]
                        /\ [node |-> nodes[m].name, input |-> j] \in HeldOutputs(nodes', r)
    /\ OwedOutputs(nodes, m) \subseteq HeldOutputs(nodes', k)

\* The nodes a call created and left with the name createNode gave them
LeftOver == {k \in DOMAIN nodes' : \A m \in DOMAIN nodes : nodes[m].name # nodes'[k].name}

TooManyInputs(m) ==
    Len(inputConnections(nodes, m))
        > InputSlots(Counterpart(nodes[m].type, nodes[m].cat), nodes[m].cat)

\* C6: in both directions the original node is destroyed only after the
\* replacement is created and the parameters, the inputs and the outputs
\* are transferred without error; and a source node with more input
\* connections than the target has inputs makes the call raise with no
\* input of the target set, and is not destroyed.
C6_DestroyedAfterTransfer ==
    [][IsConvCall =>
        /\ \A m \in DOMAIN nodes :
            (IsTk(nodes[m].type) \/ IsNative(nodes[m].type)) /\ Gone(m)
                => /\ nodes[m].name \in ret'.conv
                   /\ \E k \in DOMAIN nodes' : Replaces(k, m)
        /\ \A m \in DOMAIN nodes :
            IsSource(m) /\ TooManyInputs(m)
                => /\ ~Gone(m)
                   /\ ret'.err # NoError
        /\ ret'.err = "InvalidInput" =>
                \A k \in LeftOver : \A j \in DOMAIN nodes'[k].inputs :
                    nodes'[k].inputs[j] = 0
      ]_vars

\* C6 witness: a call that converted one node and then raised on a node with
\* too many input connections, which is still there next to the new node
C6_Witness ==
    /\ ret.op = "convert_to_regular"
    /\ ret.err = "InvalidInput"
    /\ ret.conv # {}
    /\ \E m, k \in DOMAIN nodes :
        /\ IsTk(nodes[m].type)
        /\ Len(inputConnections(nodes, m)) = 2
        /\ nodes[k].name = DefaultName(HOU_ROP_GEOMETRY_TYPE, k)

----------------------------------------------------------------------------
\* A built-in node whose stored profile name is not a label of the menu
IsStale(m) ==
    /\ IsNative(nodes[m].type)
    /\ nodes[m].user.tk_output_profile_name # ""
    /\ nodes[m].user.tk_output_profile_name \notin Range(MenuLabels(profiles))

\* C7 as claimed: convert_back_to_tk_geometry_nodes skips a node whose stored
\* output-profile name is not a menu label: the node is neither destroyed nor
\* replaced by a Toolkit node.
C7_StaleProfileSkipped ==
    [][ret'.op = "convert_back" =>
        \A m \in DOMAIN nodes : IsStale(m) => ~Gone(m)]_vars

\* C7, amended: for a node whose stored output-profile name is not a menu
\* label a warning is logged and the conversion of the node goes on: when
\* the call raises nothing, the node is destroyed and replaced by a Toolkit
\* node whose output-profile parameter is that of a newly created node, and
\* no node is destroyed without the warning being logged.
C7_StaleProfileConverted ==
    [][ret'.op = "convert_back" =>
        \A m \in DOMAIN nodes : IsStale(m) =>
            /\ ret'.err = NoError => Gone(m)
            /\ Gone(m) =>
                /\ "warning: No output profile found" \in Range(ret'.log)
                /\ \E k \in DOMAIN nodes' :
                    /\ Replaces(k, m)
                    /\ nodes'[k].parms[TK_OUTPUT_PROFILE_PARM]
                         = DefaultParm(TK_GEOMETRY_NODE_TYPE, host, TK_OUTPUT_PROFILE_PARM)
      ]_vars

\* C7 witness: a Toolkit node that replaced a node with a stale profile name
C7_Witness ==
    /\ ret.op = "convert_back"
    /\ "warning: No output profile found" \in Range(ret.log)
    /\ \E k \in DOMAIN nodes :
        /\ IsTk(nodes[k].type)
        /\ nodes[k].name \in ret.conv
        /\ nodes[k].parms["f1"] = PV(7)

----------------------------------------------------------------------------
----------------------------------------------------------------------------
(* Output path computation on the nodes of a session.  Between the calls   *)
(* the user edits what the fields dict is made of: the node's version,     *)
(* type and profile, and the session's file.                               *)

PathSettings == {<<ProfBgeo, ProfAbc, ProfOld>>}

\* The sessions: with a UI; without one and NOZ_HIPFILE unset or set; and
\* with no work file template in the configuration
PathHosts ==
    {[ui |-> u[1], hip |-> hip, env |-> u[2], workTemplate |-> u[3],
      strScripts |-> TRUE, tokens |-> TRUE,
      platform |-> "linux2"] :
        u \in {<<TRUE, "", TRUE>>, <<FALSE, "", TRUE>>,
               <<FALSE, "shotA.hip", TRUE>>, <<TRUE, "", FALSE>>},
        hip \in {"shotA.hip", "untitled.hip"}}

InitPath ==
    \E h \in PathHosts, settings \in PathSettings :
        /\ host = h
        /\ profiles = Constructed(settings).table
        /\ nodes = 1 :> SceneNode(h, Constructed(settings).table, "Rop",
                                  "tk_default", 1, "cache_a", <<>>)
        /\ disk = EmptyDisk
        /\ publishes = <<>>
        /\ ret = Ret("__init__", 0, NoError, <<>>, FALSE, Constructed(settings).log, {})
        /\ snap = NoSnap
        /\ sessions = NoSessions
        /\ config = settings

TkNodes == {n \in DOMAIN nodes : IsTk(nodes[n].type)}

ComputeOutputPath(n) ==
    /\ \E r \in {_compute_output_path(host, profiles, nodes[n])} :
           /\ nodes' = [nodes EXCEPT ![n] = r.node]
           /\ ret' = Ret("_compute_output_path", n, r.err, r.path, r.applied, r.log, {})
    /\ UNCHANGED <<profiles, host, disk, publishes, snap, sessions, config>>

ComputeBackupOutputPath(n) ==
    /\ \E r \in {_compute_backup_output_path(host, profiles, nodes[n])} :
           ret' = Ret("_compute_backup_output_path", n, r.err, r.path, FALSE, r.log, {})
    /\ UNCHANGED <<nodes, profiles, host, disk, publishes, snap, sessions, config>>

\* The user sets a parameter of the node: the version, the type or the profile
SetParm(n, name, i) ==
    /\ nodes[n].parms[name].i # i
    /\ nodes' = [nodes EXCEPT ![n].parms[name] = PV(i)]
    /\ ret' = Ret("set_parm", n, NoError, <<>>, FALSE, <<>>, {})
    /\ UNCHANGED <<profiles, host, disk, publishes, snap, sessions, config>>

EditNode(n) ==
    \/ \E v \in 1..MaxVer : SetParm(n, "ver", v)
    \/ \E i \in 0..(Len(ExtLabels) - 1) : SetParm(n, "types", i)
    \/ \E i \in 0..(Len(profiles) - 1) : SetParm(n, TK_OUTPUT_PROFILE_PARM, i)

\* The user saves the session under another file name
SaveHipAs(hip) ==
    /\ host.hip # hip
    /\ host' = [host EXCEPT !.hip = hip]
    /\ ret' = Ret("save_as", 0, NoError, <<>>, FALSE, <<>>, {})
    /\ UNCHANGED <<nodes, profiles, disk, publishes, snap, sessions, config>>

NextPath ==
    \/ \E n \in TkNodes : ComputeOutputPath(n)
    \/ \E n \in TkNodes : ComputeBackupOutputPath(n)
    \/ \E n \in TkNodes : EditNode(n)
    \/ \E hip \in HipFiles : SaveHipAs(hip)

SpecPath == InitPath /\ [][NextPath]_vars

----------------------------------------------------------------------------
(* Claims about the path computation *)

\* The work file path the handler takes matches the work file template
IsWorkFile(h) == h.workTemplate /\ WorkValidate(WorkFilePath(h))

CurrentFields(n) == OutputFields(host, profiles, nodes[n])

\* C2: a _compute_output_path call whose fields dict equals the one stored on
\* the node returns the stored path without applying the template and
\* leaves both stored values alone; so the second of two calls in a row with
\* unchanged fields returns the string of the first.  A call whose fields
\* dict differs from the stored one in any field applies the template, and
\* when it returns it has replaced the stored fields dict and the stored
\* path by the new ones.
C2_PathMemoized ==
    [][\A n \in DOMAIN nodes :
        (ret'.op = "_compute_output_path" /\ ret'.node = n /\ IsWorkFile(host)) =>
            /\ nodes[n].cachedFields = <<CurrentFields(n)>> =>
                /\ ret'.err = NoError
                /\ ret'.path = nodes[n].pathCache
                /\ ~ret'.applied
                /\ nodes' = nodes
                /\ (ret.op = "_compute_output_path" /\ ret.node = n /\ ret.err = NoError)
                        => ret'.path = ret.path
            /\ (nodes[n].cachedFields # <<CurrentFields(n)>> /\ ret'.err = NoError) =>
                /\ ret'.applied
                /\ ret'.path = ApplyFields(CurrentFields(n).output_profile.output_cache_template,
                                           CurrentFields(n))
                /\ nodes'[n].cachedFields = <<CurrentFields(n)>>
                /\ nodes'[n].pathCache = ret'.path
      ]_vars

\* C2 witness: a second call in a row returned the path the first one made,
\* on a node that had held another path before
C2_Witness ==
    /\ ret.op = "_compute_output_path"
    /\ ret.err = NoError
    /\ ~ret.applied
    /\ ret.path # <<>>
    /\ nodes[ret.node].parms["ver"].i = MaxVer
    /\ host.hip = "shotB.hip"

\* C3: when the work file path does not match the work file template, or no
\* work file template is configured, _compute_output_path and
\* _compute_backup_output_path raise the toolkit error, return no path and
\* leave the node's cached fields dict and cached path as they were.
C3_NotAWorkFile ==
    [][(ret'.op \in {"_compute_output_path", "_compute_backup_output_path"}
            /\ ~IsWorkFile(host)) =>
            /\ ret'.err = "TankError"
            /\ ret'.path = <<>>
            /\ nodes' = nodes
      ]_vars

\* C3 witness: both calls raised on a node holding the path of an earlier call
C3_Witness ==
    /\ ret.op \in {"_compute_output_path", "_compute_backup_output_path"}
    /\ ret.err = "TankError"
    /\ ~IsWorkFile(host)
    /\ nodes[ret.node].pathCache # <<>>
    /\ nodes[ret.node].cachedFields # <<>>

----------------------------------------------------------------------------
(* auto_version, handler.py:583-620 *)

\* The fields dict of auto_version, handler.py:595-600
VersionFields(h, node) ==
    [name |-> IF _get_hipfile_fields(h).fields = <<>> THEN "None"
              ELSE _get_hipfile_fields(h).fields[1].name,
     node |-> _getNodeName(node.name),
     SEQ |-> "FORMAT: $F",
     ext |-> ExtLabels[node.parms["types"].i + 1]]

\* The versions of the caches the loop of auto_version goes through
ExistingVersions(h, profs, node, dsk) ==
    {PathVersion(p) : p \in abstract_paths_from_template(dsk,
        _get_output_profile(profs, node).output_cache_template, VersionFields(h, node))}

\* (mutant) the loop keeps the last version it saw instead of the highest
MaxVersion_Mut(versions) == IF versions = {} THEN 0 ELSE Min(versions)

\* max_version after the loop, handler.py:605-609
MaxVersion(versions) == Max(versions \cup {0})

\* The folder of the path is made, handler.py:613-620; r is what
\* _compute_output_path gave
ReserveVersion(dsk, r) ==
    IF r.err # NoError
    THEN [node |-> r.node, disk |-> dsk, err |-> r.err, log |-> r.log]
    ELSE IF r.path = <<>>
    THEN [node |-> r.node, disk |-> dsk, err |-> NoError, log |-> r.log]
    ELSE [node |-> r.node,
          disk |-> [dsk EXCEPT !.dirs = @ \cup {DirName(r.path)}],
          err |-> NoError, log |-> r.log]

\* The result: the node, the disk and the exception raised
auto_version(h, profs, node, dsk) ==
    IF ~KnownTemplate(_get_output_profile(profs, node).output_cache_template)
    THEN [node |-> node, disk |-> dsk, err |-> "AttributeError", log |-> <<>>]
    ELSE ReserveVersion(dsk,
            _compute_output_path(h, profs,
                [node EXCEPT !.parms["ver"] =
                    PV(MaxVersion(ExistingVersions(h, profs, node, dsk)) + 1)]))

----------------------------------------------------------------------------
(* Versioning on the nodes of a session.  Between the calls the node is    *)
(* rendered, which writes the cache of its version, and edited.            *)

\* The caches a disk starts with: versions of the node's cache, and a cache
\* of another node
VersionDisks ==
    {[files |-> {CacheFile(<<"geo_cache_seq", "shotA", "cacheA", ToString(v), "$F4", "bgeo.sc">>,
                           1, "%04d", FALSE) : v \in V}
                \cup {CacheFile(<<"geo_cache_seq", "shotA", "other", ToString(MaxDiskVer), "$F4",
                                  "bgeo.sc">>, 1, "%04d", FALSE)},
      dirs |-> {}] : V \in SUBSET (1..MaxDiskVer)}

VersionHosts ==
    {[ui |-> TRUE, hip |-> hip, env |-> "", workTemplate |-> TRUE,
      strScripts |-> TRUE, tokens |-> TRUE,
      platform |-> "linux2"] : hip \in {"shotA.hip", "untitled.hip"}}

InitVersion ==
    \E h \in VersionHosts, settings \in PathSettings, d \in VersionDisks :
        /\ host = h
        /\ profiles = Constructed(settings).table
        /\ nodes = 1 :> SceneNode(h, Constructed(settings).table, "Rop",
                                  "tk_default", 1, "cache_a", <<>>)
        /\ disk = d
        /\ publishes = <<>>
        /\ ret = Ret("__init__", 0, NoError, <<>>, FALSE, Constructed(settings).log, {})
        /\ snap = NoSnap
        /\ sessions = NoSessions
        /\ config = settings

AutoVersion(n) ==
    /\ \E r \in {auto_version(host, profiles, nodes[n], disk)} :
           /\ nodes' = [nodes EXCEPT ![n] = r.node]
           /\ disk' = r.disk
           /\ ret' = Ret("auto_version", n, r.err, <<>>, FALSE, r.log, {})
    /\ UNCHANGED <<profiles, host, publishes, snap, sessions, config>>

\* The node is rendered: the first frame of its cache is written
WriteCache(n) ==
    \E r \in {_compute_output_path(host, profiles, nodes[n])} :
        /\ r.err = NoError /\ r.path # <<>>
        /\ nodes[n].parms["ver"].i <= MaxDiskVer
        /\ CacheFile(r.path, 1, "%04d", FALSE) \notin disk.files
        /\ nodes' = [nodes EXCEPT ![n] = r.node]
        /\ disk' = [files |-> disk.files \cup {CacheFile(r.path, 1, "%04d", FALSE)},
                    dirs |-> disk.dirs \cup {DirName(r.path)}]
        /\ ret' = Ret("render", n, NoError, r.path, FALSE, <<>>, {})
        /\ UNCHANGED <<profiles, host, publishes, snap, sessions, config>>

\* The user selects another output profile
SelectProfile(n) ==
    \E i \in 0..(Len(profiles) - 1) : SetParm(n, TK_OUTPUT_PROFILE_PARM, i)

NextVersion ==
    \/ \E n \in TkNodes : AutoVersion(n)
    \/ \E n \in TkNodes : WriteCache(n)
    \/ \E n \in TkNodes : SelectProfile(n)

SpecVersion == InitVersion /\ [][NextVersion]_vars

\* C4: auto_version sets the node's 'ver' parameter to the highest version
\* among the existing caches that match the node's template fields plus one,
\* 1 when there is none, so to a version above every existing one; with the
\* versions 1, 2 and 5 on disk it is 6.
C4_NextVersion ==
    [][\A n \in DOMAIN nodes :
        (/\ ret'.op = "auto_version" /\ ret'.node = n
         /\ KnownTemplate(_get_output_profile(profiles, nodes[n]).output_cache_template))
        => LET existing == ExistingVersions(host, profiles, nodes[n], disk)
           IN  /\ \A v \in existing : nodes'[n].parms["ver"].i > v
               /\ existing = {} => nodes'[n].parms["ver"].i = 1
               /\ existing # {} =>
                    /\ nodes'[n].parms["ver"].i - 1 \in existing
                    /\ \A v \in existing : v <= nodes'[n].parms["ver"].i - 1
               /\ existing = {1, 2, 5} => nodes'[n].parms["ver"].i = 6
      ]_vars

\* C4 witness: the versions 1, 2 and 5 were on disk, and the node got 6
C4_Witness ==
    /\ ret.op = "auto_version"
    /\ ret.err = NoError
    /\ ExistingVersions(host, profiles, nodes[ret.node], disk) = {1, 2, 5}
    /\ nodes[ret.node].parms["ver"].i = 6
    /\ DirName(nodes[ret.node].pathCache) \in disk.dirs

----------------------------------------------------------------------------
(* auto_publish, handler.py:529-581.  A publish record is                  *)
(* [path, name, type, version, deps].                                      *)

FILE_NODE_TYPE == "sgtk_file"

\* The nodes of the scene that refer to a file: their type, and the
\* parameter that holds the file
RefParms ==
    [alembicarchive |-> "fileName", abc_cam |-> "abcFile",
     sgtk_file |-> "file", arnold_procedural |-> "ar_filename"]

\* A node that refers to a file
RefNode(id, type, file) ==
    [type |-> type, cat |-> "Sop", name |-> "ref1", pos |-> id, color |-> "grey",
     parms |-> (RefParms[type] :> PS(file)),
     user |-> NoUserData, inputs |-> [k \in {0} |-> 0],
     cachedFields |-> <<>>, pathCache |-> <<>>]

\* A Toolkit file node: it reads a file (mode 'file') or the cache of a
\* geometry node (mode 'out', rop)
FileNode(id, mode, rop, overver, file) ==
    [type |-> FILE_NODE_TYPE, cat |-> "Sop", name |-> "sgtk_file1", pos |-> id,
     color |-> "grey",
     parms |-> [mode |-> PS(<<mode>>), rop |-> PS(<<rop>>), overver |-> PV(overver),
                file |-> PS(file), seqlabel |-> PS(<<>>)],
     user |-> NoUserData, inputs |-> [k \in {0} |-> 0],
     cachedFields |-> <<>>, pathCache |-> <<>>]

\* hou_path of the scene walk, handler.py:540-549; <<>> is None.  A path is
\* a sequence of tokens without separators, which is what replace() changes.
hou_path(node) ==
    IF node.type = FILE_NODE_TYPE
    THEN (IF node.parms["mode"].s = <<"file">> THEN node.parms["file"].s ELSE <<>>)
    ELSE IF node.type \in DOMAIN RefParms THEN node.parms[RefParms[node.type]].s
    ELSE <<>>

\* refs, handler.py:537-552
SceneRefs(ns) ==
    LET ids == SetToSeq(DOMAIN ns)
    IN  SelectSeq([k \in 1..Len(ids) |-> hou_path(ns[ids[k]])], LAMBDA p : p # <<>>)

\* (mutant) the registry is not looked up
find_publish_Mut(pubs, paths) == {}

\* sgtk.util.find_publish(tk, paths): the paths that have a publish
find_publish(pubs, paths) ==
    {p \in paths : \E i \in 1..Len(pubs) : pubs[i].path = p}

\* sgtk.util.register_publish: the registry refuses a publish (ok is FALSE:
\* the site does not answer, or rejects the record), and one without a path
register_publish(pubs, path, name, type, version, deps, ok) ==
    IF ~ok \/ path = <<>>
    THEN [pubs |-> pubs, err |-> "ShotgunPublishError"]
    ELSE [pubs |-> Append(pubs, [path |-> path, name |-> name, type |-> type,
                                 version |-> version, deps |-> deps]),
          err |-> NoError]

\* file_type_name, handler.py:566-574
FileTypeName(cache_type) ==
    IF cache_type = "bgeo.sc" THEN "Bgeo Cache"
    ELSE IF cache_type = "abc" THEN "Alembic Cache"
    ELSE IF cache_type = "exr" THEN "Texture"
    ELSE "Other Cache"

\* What auto_publish returns with
Published(c, pubs, err, log) ==
    [node |-> c.node, pubs |-> pubs, err |-> err, path |-> c.path, log |-> c.log \o log]

\* r2 is what registering the cache gave: the registry as the backup's
\* registration left it when it failed
PublishDone(c, r2) == Published(c, r2.pubs, r2.err, <<>>)

\* The cache is registered, handler.py:561-579; r1 is what registering the
\* backup gave
PublishCache(c, b, pubs, ok2, r1) ==
    IF r1.err # NoError THEN Published(c, pubs, r1.err, <<>>)
    ELSE PublishDone(c,
            register_publish(r1.pubs, c.path, _getNodeName(c.node.name),
                             FileTypeName(ExtLabels[c.node.parms["types"].i + 1]),
                             c.node.parms["ver"].i, <<b.path>>, ok2))

\* The backup is registered, handler.py:554-559; b is what
\* _compute_backup_output_path gave
PublishBackup(ns, c, pubs, ok1, ok2, b) ==
    IF b.err # NoError THEN Published(c, pubs, b.err, <<>>)
    ELSE PublishCache(c, b, pubs, ok2,
            register_publish(pubs, b.path, _getNodeName(c.node.name), "Backup File",
                             c.node.parms["ver"].i, SceneRefs(ns), ok1))

\* The registry is looked up, handler.py:533-535; c is what
\* _compute_output_path gave
PublishUnlessFound(h, profs, ns, pubs, ok1, ok2, c) ==
    IF c.err # NoError THEN Published(c, pubs, c.err, <<>>)
    ELSE IF find_publish(pubs, {c.path}) # {}
    THEN Published(c, pubs, NoError,
                   <<"info: Trying to register cache that already exists!">>)
    ELSE PublishBackup(ns, c, pubs, ok1, ok2,
            _compute_backup_output_path(h, profs, c.node))

\* The result: the node, the registry, the exception raised, the cache path
auto_publish(h, profs, ns, n, pubs, ok1, ok2) ==
    PublishUnlessFound(h, profs, ns, pubs, ok1, ok2,
        _compute_output_path(h, profs, ns[n]))

----------------------------------------------------------------------------
(* Publishing from the nodes of a session *)

\* The other node of the scene, if any
PublishScenes ==
    {<<>>,
     <<RefNode(2, "alembicarchive", <<"assets", "tree.abc">>)>>,
     <<FileNode(2, "file", "", 0, <<"assets", "rock.bgeo.sc">>)>>,
     <<FileNode(2, "out", "cache_a", 0, <<>>)>>}

InitPublish ==
    \E h \in VersionHosts, settings \in PathSettings, scene \in PublishScenes :
        /\ host = h
        /\ profiles = Constructed(settings).table
        /\ nodes = [id \in 1..(1 + Len(scene)) |->
                        IF id = 1
                        THEN SceneNode(h, Constructed(settings).table, "Rop",
                                       "tk_default", 1, "cache_a", <<>>)
                        ELSE scene[id - 1]]
        /\ disk = EmptyDisk
        /\ publishes = <<>>
        /\ ret = Ret("__init__", 0, NoError, <<>>, FALSE, Constructed(settings).log, {})
        /\ snap = NoSnap
        /\ sessions = NoSessions
        /\ config = settings

AutoPublish(n) ==
    /\ Len(publishes) < MaxPublishes
    /\ \E ok1 \in BOOLEAN, ok2 \in BOOLEAN :
        \E r \in {auto_publish(host, profiles, nodes, n, publishes, ok1, ok2)} :
            /\ nodes' = [nodes EXCEPT ![n] = r.node]
            /\ publishes' = r.pubs
            /\ ret' = Ret("auto_publish", n, r.err, r.path, FALSE, r.log, {})
    /\ UNCHANGED <<profiles, host, disk, snap, sessions, config>>

\* The user selects another type of cache
SelectType(n) ==
    \E i \in 0..(Len(ExtLabels) - 1) : SetParm(n, "types", i)

NextPublish ==
    \/ \E n \in TkNodes : AutoPublish(n)
    \/ \E n \in TkNodes : SelectProfile(n)
    \/ \E n \in TkNodes : SelectType(n)

SpecPublish == InitPublish /\ [][NextPublish]_vars

Registered(pubs, path) == \E i \in 1..Len(pubs) : pubs[i].path = path

\* C9: auto_publish registers nothing when the cache path it resolved is
\* already registered.  Otherwise a call that completes appends two records
\* to the registry: the backup file first, then the cache, whose only
\* dependency is the path of the backup record.  So the second of two calls
\* in a row on the same node, both completing, registers nothing.
C9_PublishOnce ==
    [][\A n \in DOMAIN nodes :
        (ret'.op = "auto_publish" /\ ret'.node = n) =>
            LET k == Len(publishes)
            IN  /\ Registered(publishes, ret'.path) => publishes' = publishes
                /\ (ret'.err = NoError /\ ~Registered(publishes, ret'.path)) =>
                    /\ Len(publishes') = k + 2
                    /\ SubSeq(publishes', 1, k) = publishes
                    /\ publishes'[k + 1].type = "Backup File"
                    /\ publishes'[k + 1].path # ret'.path
                    /\ publishes'[k + 1].path[1] =
                            _get_output_profile(profiles, nodes[n]).output_backup_template
                    /\ publishes'[k + 2].path = ret'.path
                    /\ publishes'[k + 2].type # "Backup File"
                    /\ publishes'[k + 2].deps = <<publishes'[k + 1].path>>
                /\ (ret.op = "auto_publish" /\ ret.node = n /\ ret.err = NoError
                        /\ ret'.err = NoError) => publishes' = publishes
      ]_vars

\* C9 witness: a second completed call in a row, with the two records of the
\* first in the registry
C9_Witness ==
    /\ ret.op = "auto_publish"
    /\ ret.err = NoError
    /\ ret.log # <<>>
    /\ Len(publishes) = 2
    /\ publishes[2].path = ret.path
    /\ publishes[2].deps = <<publishes[1].path>>
    /\ publishes[1].deps # <<>>

----------------------------------------------------------------------------
(* check_seq, handler.py:622-671 *)

\* The maximal runs of consecutive numbers of a set, in order
RECURSIVE Runs(_)
Runs(S) ==
    IF S = {} THEN <<>>
    ELSE LET lo == Min(S)
             hi == Max({h \in S : \A x \in lo..h : x \in S})
         IN  <<<<lo, hi>>>> \o Runs(S \ (lo..hi))

RECURSIVE RunTokens(_)
RunTokens(runs) ==
    IF runs = <<>> THEN <<>>
    ELSE (IF runs[1][1] = runs[1][2] THEN <<ToString(runs[1][1])>>
          ELSE <<ToString(runs[1][1]), "-", ToString(runs[1][2])>>)
         \o (IF Len(runs) > 1 THEN <<",">> ELSE <<>>) \o RunTokens(Tail(runs))

\* seq.format('%R') and seq.format('%M'): the ranges of a set of frames
FormatRanges(S) == <<"[">> \o RunTokens(Runs(S)) \o <<"]">>

\* pyseq.get_sequences(path with '*' for the frame): the files of that name
\* on disk, those whose frames are written alike making one sequence
get_sequences(dsk, path) ==
    {[pad |-> pad,
      frames |-> {f.frame : f \in {x \in dsk.files : x.path = path /\ x.pad = pad}}] :
        pad \in {x.pad : x \in {y \in dsk.files : y.path = path}}}

\* seq.missing(): the frames between the first and the last that are not there
missing(seq) == (Min(seq.frames)..Max(seq.frames)) \ seq.frames

\* os.path.exists(path)
exists(dsk, path) == \E f \in dsk.files : f.path = path

\* abc.alembicTimeRange(path): the time range in seconds, <<>> for None
alembicTimeRange(dsk, path) ==
    LET f == CHOOSE x \in dsk.files : x.path = path
    IN  IF f.timed THEN <<0, MaxFrame>> ELSE <<>>

\* hou.fps()
Fps == 24

\* The colour of a node: hou.Color((0, 0.8, 0)) and hou.Color((0.8, 0, 0))
Green == "green"
Red == "red"

\* (mutant) any number of sequences but none counts as a cache
IsOneSequence_Mut(sequences) == Cardinality(sequences) >= 1

\* len(sequences) == 1, handler.py:631
IsOneSequence(sequences) == Cardinality(sequences) = 1

\* return_str and node_color of check_seq for a path, handler.py:624-663
SeqStatus(dsk, path) ==
    LET sequences == get_sequences(dsk, path)
        seq == CHOOSE x \in sequences : TRUE
        abcRange == alembicTimeRange(dsk, path)
        st(l, c) == [label |-> l, color |-> c]
    IN  IF \E k \in 1..Len(path) : path[k] = "$F4"
        THEN (IF IsOneSequence(sequences)
              THEN (IF missing(seq) # {}
                    THEN st(<<"[", ToString(Min(seq.frames)), "-", ToString(Max(seq.frames)),
                              "]", ",", "missing">> \o FormatRanges(missing(seq)), Red)
                    ELSE st(FormatRanges(seq.frames), Red))
              ELSE st(<<"No or multiple sequences detected!">>, Green))
        ELSE IF path[Len(path)] = "abc"
        THEN (IF exists(dsk, path)
              THEN (IF abcRange # <<>>
                    THEN st(<<"[", ToString(abcRange[1] * Fps), "-",
                              ToString(abcRange[2] * Fps), "]", "- ABC Archive">>, Red)
                    ELSE st(<<"Single Abc">>, Red))
              ELSE st(<<"No Cache!">>, Green))
        ELSE (IF exists(dsk, path) THEN st(<<"Single Frame">>, Red)
              ELSE st(<<"No Cache!">>, Green))

\* node.dependents(include_children=False): the nodes that read the node
dependents(ns, n) ==
    {m \in DOMAIN ns \ {n} :
        \/ \E k \in DOMAIN ns[m].inputs : ns[m].inputs[k] = n
        \/ ns[m].type = FILE_NODE_TYPE /\ ns[m].parms["rop"].s = <<ns[n].name>>}

\* The file nodes check_seq labels, handler.py:666-668
LabelledFileNodes(ns, n) ==
    {m \in dependents(ns, n) :
        /\ ns[m].type = FILE_NODE_TYPE
        /\ ns[m].parms["mode"].s = <<"out">>
        /\ ns[m].parms["rop"].s = <<ns[n].name>>
        /\ ns[m].parms["overver"].i = 0}

\* The result: the nodes and the exception raised.  The test of a path that
\* is None for its frame placeholder raises.
\* The label and the colour are set, handler.py:665-671
SetStatus(ns, n, c, st) ==
    [nodes |->
        [m \in DOMAIN ns |->
            IF m = n
            THEN [c.node EXCEPT !.color = st.color, !.parms["seqlabel"] = PS(st.label)]
            ELSE IF m \in LabelledFileNodes(ns, n)
            THEN [ns[m] EXCEPT !.parms["seqlabel"] = PS(st.label)]
            ELSE ns[m]],
     err |-> NoError, log |-> c.log]

\* handler.py:624-671; c is what _compute_output_path gave
CheckPath(ns, dsk, n, c) ==
    IF c.err # NoError
    THEN [nodes |-> [ns EXCEPT ![n] = c.node], err |-> c.err, log |-> c.log]
    ELSE IF c.path = <<>>
    THEN [nodes |-> [ns EXCEPT ![n] = c.node], err |-> "TypeError", log |-> c.log]
    ELSE SetStatus(ns, n, c, SeqStatus(dsk, c.path))

check_seq(h, profs, ns, dsk, n) ==
    CheckPath(ns, dsk, n, _compute_output_path(h, profs, ns[n]))

----------------------------------------------------------------------------
(* Checking the caches of the nodes of a session, which the renders write  *)

\* The other node of the scene, if any: a file node that reads the cache
SeqScenes ==
    {<<>>, <<FileNode(2, "file", "cache_a", 0, <<>>)>>}
        \cup {<<FileNode(2, "out", "cache_a", overver, <<>>)>> : overver \in {0, 1}}

\* The files a cache has on disk at the start: frames of the sequence, a
\* frame written without padding, and the archive
SeqDisks ==
    {[files |-> {CacheFile(<<"geo_cache_seq", "shotA", "cacheA", "1", "$F4", "bgeo.sc">>,
                           f, "%04d", FALSE) : f \in F}
                \cup {CacheFile(<<"geo_cache_seq", "shotA", "cacheA", "1", "$F4", "bgeo.sc">>,
                                f, "%d", FALSE) : f \in G}
                \cup {CacheFile(<<"geo_cache_file", "shotA", "cacheA", "1", "abc">>,
                                0, "", t) : t \in A},
      dirs |-> {}] :
        F \in SUBSET (1..MaxFrame), G \in SUBSET {1}, A \in {{}, {TRUE}}}

InitSeq ==
    \E h \in VersionHosts, settings \in PathSettings, scene \in SeqScenes,
       d \in SeqDisks, type \in 0..(Len(ExtLabels) - 1) :
        /\ host = h
        /\ profiles = Constructed(settings).table
        /\ nodes = [id \in 1..(1 + Len(scene)) |->
                        IF id = 1
                        THEN [SceneNode(h, Constructed(settings).table, "Rop",
                                        "tk_default", 1, "cache_a", <<>>)
                                EXCEPT !.parms["types"] = PV(type)]
                        ELSE scene[id - 1]]
        /\ disk = d
        /\ publishes = <<>>
        /\ ret = Ret("__init__", 0, NoError, <<>>, FALSE, Constructed(settings).log, {})
        /\ snap = NoSnap
        /\ sessions = NoSessions
        /\ config = settings

CheckSeq(n) ==
    /\ \E r \in {check_seq(host, profiles, nodes, disk, n)} :
           /\ nodes' = r.nodes
           /\ ret' = Ret("check_seq", n, r.err, <<>>, FALSE, r.log, {})
    /\ UNCHANGED <<profiles, host, disk, publishes, snap, sessions, config>>

\* The node is rendered: the next frame of its cache, or its one file, is
\* written
WriteFrame(n, frame) ==
    \E r \in {_compute_output_path(host, profiles, nodes[n])} :
    LET isSeq == \E k \in 1..Len(r.path) : r.path[k] = "$F4"
        written == {f.frame : f \in {x \in disk.files : x.path = r.path /\ x.pad = "%04d"}}
        file == CacheFile(r.path, IF isSeq THEN frame ELSE 0,
                          IF isSeq THEN "%04d" ELSE "", FALSE)
    IN  /\ r.err = NoError /\ r.path # <<>>
        /\ isSeq => frame = Max(written \cup {0}) + 1
        /\ ~isSeq => frame = 1 /\ ~exists(disk, r.path)
        /\ nodes' = [nodes EXCEPT ![n] = r.node]
        /\ disk' = [files |-> disk.files \cup {file},
                    dirs |-> disk.dirs \cup {DirName(r.path)}]
        /\ ret' = Ret("render", n, NoError, r.path, FALSE, <<>>, {})
        /\ UNCHANGED <<profiles, host, publishes, snap, sessions, config>>

NextSeq ==
    \/ \E n \in TkNodes : CheckSeq(n)
    \/ \E n \in TkNodes, frame \in 1..MaxFrame : WriteFrame(n, frame)
    \/ \E n \in TkNodes : SelectProfile(n)

SpecSeq == InitSeq /\ [][NextSeq]_vars

HasPlaceholder(path) == \E k \in 1..Len(path) : path[k] = "$F4"

\* The files of the disk under a path
FilesAt(path) == {f \in disk.files : f.path = path}

\* A cache is detected for a path: the files under a path with the frame
\* placeholder are the frames of one sequence; a path without it is a file
Detected(path) ==
    IF HasPlaceholder(path)
    THEN FilesAt(path) # {} /\ \A f, g \in FilesAt(path) : f.pad = g.pad
    ELSE FilesAt(path) # {}

\* The frames of a detected sequence that are not on disk
MissingFrames(path) ==
    LET frames == {f.frame : f \in FilesAt(path)}
    IN  {m \in 1..MaxFrame : m \notin frames /\ \E a, b \in frames : a < m /\ m < b}

\* The part of a label that follows the word 'missing'
MissingPart(label) ==
    IF \E k \in 1..Len(label) : label[k] = "missing"
    THEN SubSeq(label, (CHOOSE k \in 1..Len(label) : label[k] = "missing") + 1, Len(label))
    ELSE <<>>

IsFrame(tok) == \E v \in 1..MaxFrame : ToString(v) = tok
FrameOf(tok) == CHOOSE v \in 1..MaxFrame : ToString(v) = tok

\* A list of ranges names a frame: as a number of its own or within a range
Names(part, m) ==
    \E k \in 1..Len(part) :
        \/ part[k] = ToString(m)
        \/ /\ part[k] = "-" /\ k > 1 /\ k < Len(part)
           /\ IsFrame(part[k - 1]) /\ IsFrame(part[k + 1])
           /\ FrameOf(part[k - 1]) < m /\ m < FrameOf(part[k + 1])

\* C10: a check_seq call that returns has set the colour of the node and its
\* 'seqlabel' label: the colour is red when a cache is detected for the
\* output path (one frame sequence for a path with the frame placeholder, a
\* file for another path) and green when none is; the label of a detected
\* sequence with missing frames names exactly the missing frames, and the
\* label when no cache is detected is a 'no cache' message.  A call that
\* raises sets neither.
C10_ColorAndLabel ==
    [][\A n \in DOMAIN nodes :
        (ret'.op = "check_seq" /\ ret'.node = n) =>
            LET path == nodes'[n].pathCache
                label == nodes'[n].parms["seqlabel"].s
            IN  /\ ret'.err = NoError =>
                    /\ nodes'[n].color \in {Red, Green}
                    /\ nodes'[n].color = Red <=> Detected(path)
                    /\ label # <<>>
                    /\ (Detected(path) /\ HasPlaceholder(path)) =>
                            \A m \in 1..MaxFrame :
                                m \in MissingFrames(path) <=> Names(MissingPart(label), m)
                    /\ ~Detected(path) =>
                            label \in {<<"No Cache!">>,
                                       <<"No or multiple sequences detected!">>}
                /\ ret'.err # NoError =>
                    /\ nodes'[n].color = nodes[n].color
                    /\ nodes'[n].parms["seqlabel"] = nodes[n].parms["seqlabel"]
      ]_vars

\* C10 witness: a sequence with a missing frame has been detected and
\* labelled, after a check that found no cache
C10_Witness ==
    /\ ret.op = "check_seq"
    /\ ret.err = NoError
    /\ nodes[ret.node].color = Red
    /\ MissingFrames(nodes[ret.node].pathCache) # {}
    /\ MissingPart(nodes[ret.node].parms["seqlabel"].s) # <<>>
    /\ \E m \in DOMAIN nodes : /\ nodes[m].type = FILE_NODE_TYPE
                               /\ nodes[m].parms["seqlabel"] = nodes[ret.node].parms["seqlabel"]

----------------------------------------------------------------------------
(* auto_version in two sessions on one disk.  Each session has the same    *)
(* work file open and holds its own copy of the scene: session s runs      *)
(* auto_version on nodes[s].  The call is followed statement by statement  *)
(* where it reads or writes the disk, handler.py:605-620.                  *)

\* (mutant) the loop also counts the version folders that hold no cache yet
ScanVersions_Mut(h, profs, node, dsk) ==
    Max(ExistingVersions(h, profs, node, dsk) \cup {0}
        \cup {PathVersion(d) : d \in {x \in dsk.dirs :
                /\ x[1] = _get_output_profile(profs, node).output_cache_template
                /\ x[3] = VersionFields(h, node).node}})

\* max_version when the loop over the caches on disk ends, handler.py:604-609
ScanVersions(h, profs, node, dsk) ==
    MaxVersion(ExistingVersions(h, profs, node, dsk))

\* A call that has not begun, or has returned to its caller
IdleCall == [pc |-> "idle", max_version |-> 0, dir_path |-> <<>>]

Sessions == {1, 2}

\* The disks the sessions start on: caches of some versions of the node, each
\* in its version folder
RaceDisks ==
    {[files |-> {CacheFile(<<"geo_cache_seq", "shotA", "cacheA", ToString(v), "$F4",
                             "bgeo.sc">>, 1, "%04d", FALSE) : v \in V},
      dirs |-> {<<"geo_cache_seq", "shotA", "cacheA", ToString(v)>> : v \in V}] :
        V \in SUBSET (1..MaxVer)}

\* Both sessions have the work file of the shot open
RaceHosts == {h \in VersionHosts : h.hip = "shotA.hip"}

\* The configured profiles: one whose cache template exists, one whose does not
RaceSettings == {<<ProfBgeo, ProfOld>>}

InitRace ==
    \E h \in RaceHosts, settings \in RaceSettings, d \in RaceDisks :
        /\ host = h
        /\ profiles = Constructed(settings).table
        /\ nodes = [s \in Sessions |->
                        SceneNode(h, Constructed(settings).table, "Rop",
                                  "tk_default", s, "cache_a", <<>>)]
        /\ disk = d
        /\ publishes = <<>>
        /\ ret = Ret("__init__", 0, NoError, <<>>, FALSE, Constructed(settings).log, {})
        /\ snap = NoSnap
        /\ sessions = [s \in Sessions |-> IdleCall]
        /\ config = settings

\* handler.py:585-609: the template is looked up and the caches are listed
ScanCaches(s) ==
    /\ sessions[s].pc = "idle"
    /\ IF ~KnownTemplate(_get_output_profile(profiles, nodes[s]).output_cache_template)
       THEN /\ sessions' = [sessions EXCEPT ![s].pc = "done"]
            /\ ret' = Ret("auto_version", s, "AttributeError", <<>>, FALSE, <<>>, {})
       ELSE /\ sessions' = [sessions EXCEPT ![s] =
                    [pc |-> "scanned",
                     max_version |-> ScanVersions(host, profiles, nodes[s], disk),
                     dir_path |-> <<>>]]
            /\ UNCHANGED ret
    /\ UNCHANGED <<nodes, profiles, host, disk, publishes, snap, config>>

\* handler.py:611-619: 'ver' is set, the path is computed, and the folder of
\* the path is looked for
SetVersion(s) ==
    /\ sessions[s].pc = "scanned"
    /\ \E r \in {_compute_output_path(host, profiles,
                    [nodes[s] EXCEPT !.parms["ver"] = PV(sessions[s].max_version + 1)])} :
           /\ nodes' = [nodes EXCEPT ![s] = r.node]
           /\ IF r.err = NoError /\ r.path # <<>> /\ DirName(r.path) \notin disk.dirs
              THEN /\ sessions' = [sessions EXCEPT ![s].pc = "checked",
                                                   ![s].dir_path = DirName(r.path)]
                   /\ UNCHANGED ret
              ELSE /\ sessions' = [sessions EXCEPT ![s].pc = "done"]
                   /\ ret' = Ret("auto_version", s, r.err, <<>>, FALSE, r.log, {})
    /\ UNCHANGED <<profiles, host, disk, publishes, snap, config>>

\* handler.py:620: os.makedirs(dir_path), after the folder was not found;
\* os.makedirs raises OSError when the folder exists by now
MakeDirs(s) ==
    /\ sessions[s].pc = "checked"
    /\ sessions' = [sessions EXCEPT ![s].pc = "done"]
    /\ IF sessions[s].dir_path \in disk.dirs
       THEN /\ ret' = Ret("auto_version", s, "OSError", <<>>, FALSE, <<>>, {})
            /\ UNCHANGED disk
       ELSE /\ ret' = Ret("auto_version", s, NoError, <<>>, FALSE, <<>>, {})
            /\ disk' = [disk EXCEPT !.dirs = @ \cup {sessions[s].dir_path}]
    /\ UNCHANGED <<nodes, profiles, host, publishes, snap, config>>

\* The call of session s is over
ReturnCall(s) ==
    /\ sessions[s].pc = "done"
    /\ sessions' = [sessions EXCEPT ![s] = IdleCall]
    /\ UNCHANGED <<nodes, profiles, host, disk, publishes, ret, snap, config>>

\* Session s renders its node between two calls
RenderCache(s) ==
    /\ sessions[s].pc = "idle"
    /\ nodes[s].parms["ver"].i <= MaxVer
    /\ WriteCache(s)

\* The user of session s selects another output profile between two calls
SelectProfileIdle(s) ==
    /\ sessions[s].pc = "idle"
    /\ SelectProfile(s)

NextRace ==
    \/ \E s \in Sessions : ScanCaches(s)
    \/ \E s \in Sessions : SetVersion(s)
    \/ \E s \in Sessions : MakeDirs(s)
    \/ \E s \in Sessions : ReturnCall(s)
    \/ \E s \in Sessions : RenderCache(s)
    \/ \E s \in Sessions : SelectProfileIdle(s)

SpecRace == InitRace /\ [][NextRace]_vars

\* The versions of the cache files on disk under the fields of session s
CachedVersions(s) ==
    {v \in 0..(MaxDiskVer + MaxVer + 2) :
        \E f \in disk.files :
            /\ f.path[1] = _get_output_profile(profiles, nodes[s]).output_cache_template
            /\ (VersionFields(host, nodes[s]).name = "None"
                    \/ f.path[2] = VersionFields(host, nodes[s]).name)
            /\ f.path[3] = VersionFields(host, nodes[s]).node
            /\ f.path[4] = ToString(v)
            /\ f.path[Len(f.path)] = VersionFields(host, nodes[s]).ext}

\* Session s has set its version and looked for the folder of its path
HasTarget(s) == sessions[s].pc = "checked"

\* The sessions a and b version the same template with the same fields
SameFields(a, b) ==
    /\ _get_output_profile(profiles, nodes[a]).output_cache_template
            = _get_output_profile(profiles, nodes[b]).output_cache_template
    /\ VersionFields(host, nodes[a]) = VersionFields(host, nodes[b])

\* C11: version reservation is not guarded against concurrent sessions.  The
\* version a session reads is the highest among the cache files on disk,
\* whatever another session has read, set or made meanwhile; so two sessions
\* with the same fields that read the same highest version set the same
\* version, max+1, and target the same folder, which each of them looked for
\* and did not find before either made it.
C11_UnguardedReservation ==
    [][/\ \A s \in Sessions :
            (sessions[s].pc = "idle" /\ sessions'[s].pc = "scanned")
            => sessions'[s].max_version = Max(CachedVersions(s) \cup {0})
       /\ \A a, b \in Sessions :
            (/\ HasTarget(a)' /\ HasTarget(b)' /\ SameFields(a, b)'
             /\ sessions'[a].max_version = sessions'[b].max_version)
            => /\ nodes'[a].parms["ver"].i = sessions'[a].max_version + 1
               /\ nodes'[b].parms["ver"].i = nodes'[a].parms["ver"].i
               /\ sessions'[a].dir_path = sessions'[b].dir_path
      ]_vars

\* C11 witness: both sessions read the same highest version, both set max+1,
\* both looked for the same folder and did not find it, and neither has made
\* it yet
C11_Witness ==
    /\ HasTarget(1) /\ HasTarget(2) /\ SameFields(1, 2)
    /\ sessions[1].max_version = sessions[2].max_version
    /\ sessions[1].max_version \in CachedVersions(1)
    /\ nodes[1].parms["ver"].i = sessions[1].max_version + 1
    /\ nodes[2].parms["ver"].i = sessions[1].max_version + 1
    /\ sessions[1].dir_path = sessions[2].dir_path
    /\ sessions[1].dir_path = DirName(nodes[1].pathCache)
    /\ sessions[1].dir_path \notin disk.dirs

\* C11, after the race: the second os.makedirs found the folder made by the
\* first, and both sessions hold the one version
C11_BothReserved ==
    /\ ret.op = "auto_version" /\ ret.err = "OSError"
    /\ \A s \in Sessions : sessions[s].pc = "done"
    /\ nodes[1].parms["ver"].i = nodes[2].parms["ver"].i
    /\ nodes[1].pathCache = nodes[2].pathCache
    /\ DirName(nodes[1].pathCache) \in disk.dirs

----------------------------------------------------------------------------
(* The handler constructed from any configured list of output profiles,    *)
(* handler.py:292-318, and used afterwards.                                *)

\* The configured lists: up to MaxProfiles entries, names repeated or not
ProfileSettings ==
    UNION {[1..k -> {ProfBgeo, ProfAbc, ProfBgeoAgain, ProfOld}] : k \in 1..MaxProfiles}

InitProfiles ==
    \E h \in RaceHosts, settings \in ProfileSettings :
        /\ host = h
        /\ profiles = Constructed(settings).table
        /\ nodes = 1 :> SceneNode(h, Constructed(settings).table, "Rop",
                                  "tk_default", 1, "cache_a", <<>>)
        /\ disk = EmptyDisk
        /\ publishes = <<>>
        /\ ret = Ret("__init__", 0, NoError, <<>>, FALSE, Constructed(settings).log, {})
        /\ snap = NoSnap
        /\ sessions = NoSessions
        /\ config = settings

NextProfiles ==
    \/ \E n \in TkNodes : ComputeOutputPath(n)
    \/ \E n \in TkNodes : ComputeBackupOutputPath(n)
    \/ \E n \in TkNodes : SelectProfile(n)

SpecProfiles == InitProfiles /\ [][NextProfiles]_vars

\* The entries of the configured list that repeat the name of an earlier one
LaterDuplicates == {j \in DOMAIN config : \E k \in 1..(j - 1) : config[k].name = config[j].name}

\* The warnings of a log
Warnings(log) == {k \in DOMAIN log : log[k] = "warning: multiple output profiles"}

\* C12: profile names are unique in the handler's profile table.  Each name
\* of the configured list is in the table once, under the first definition
\* the list has for it; constructing the handler logs one warning for each
\* later entry of a name already loaded; and no call changes the table.
C12_FirstProfileKept ==
    [][/\ \A i, j \in DOMAIN profiles : profiles[i].name = profiles[j].name => i = j
       /\ \A j \in DOMAIN config :
            \E i \in DOMAIN profiles :
                /\ profiles[i].name = config[j].name
                /\ \E k \in 1..j : /\ profiles[i] = config[k]
                                    /\ \A x \in 1..(k - 1) : config[x].name # config[k].name
       /\ Len(profiles) = Len(config) - Cardinality(LaterDuplicates)
       /\ ret.op = "__init__" => Cardinality(Warnings(ret.log)) = Cardinality(LaterDuplicates)
       /\ profiles' = profiles
      ]_vars

\* C12 witness: the list has a second definition under the name 'Bgeo'; the
\* table is shorter than the list, and the path of a node of that profile was
\* computed from the template of the first definition
C12_Witness ==
    /\ config[1] = ProfBgeo
    /\ \E j \in DOMAIN config : config[j] = ProfBgeoAgain
    /\ Len(profiles) < Len(config)
    /\ ret.op = "_compute_output_path" /\ ret.err = NoError
    /\ _get_output_profile(profiles, nodes[ret.node]) = ProfBgeo
    /\ ret.path # <<>> /\ ret.path[1] = "geo_cache_seq"

----------------------------------------------------------------------------
(* show_in_fs, handler.py:409-464, and the menu of the output path it      *)
(* reads.  A call's log holds, in order, what it logged ("error: ..",      *)
(* "debug: .."), the messages it displayed ("message: .."), the parameters *)
(* it set ("set: ..") and the commands it ran ("system: ..").              *)

\* sys.platform: the values show_in_fs recognizes, and two it does not
RecognizedPlatforms == {"linux2", "darwin", "win32"}
Platforms == RecognizedPlatforms \cup {"linux", "sunos5"}

\* handler.py:447-452: the command of the platform
ShellCommand(system) ==
    CASE system = "linux2" -> "system: xdg-open"
      [] system = "darwin" -> "system: open"
      [] system = "win32" -> "system: cmd.exe"

\* handler.py:443-464: the folder is shown.  On a platform that is none of
\* the three the else branch logs and displays, and cmd is read unbound
ShowFolder(h, node, log, render_dir, exit_code) ==
    IF h.platform \notin RecognizedPlatforms
    THEN [node |-> node, err |-> "UnboundLocalError", dir |-> render_dir,
          log |-> log \o <<"error: platform not supported",
                            "message: platform not supported">>]
    ELSE [node |-> node, err |-> NoError, dir |-> render_dir,
          log |-> log \o <<"debug: executing command", ShellCommand(h.platform)>>
                     \o (IF exit_code # 0 THEN <<"message: failed to launch">> ELSE <<>>)]

\* template.validate(path) of the profile's cache template
ValidatePath(profs, node, path) ==
    /\ Len(path) >= 5
    /\ path[1] = _get_output_profile(profs, node).output_cache_template

\* _get_rendered_files, handler.py:809-830, after the menu gave file_name
RenderedFiles(profs, node, dsk, file_name) ==
    IF ~ValidatePath(profs, node, file_name) THEN {}
    ELSE {f \in dsk.files : f.path = file_name}

\* handler.py:428-440: no folder at the cached path, so the rendered files
\* are looked for
ShowRendered(h, profs, dsk, m, exit_code) ==
    IF ~KnownTemplate(_get_output_profile(profs, m.node).output_cache_template)
    THEN [node |-> m.node, err |-> "AttributeError", dir |-> <<>>, log |-> m.log]
    ELSE IF RenderedFiles(profs, m.node, dsk, m.menu) = {}
    THEN [node |-> m.node, err |-> NoError, dir |-> <<>>,
          log |-> m.log
                  \o (IF ValidatePath(profs, m.node, m.menu) THEN <<>>
                      ELSE <<"error: unable to validate files on disk">>)
                  \o <<"error: unable to find rendered files",
                       "message: unable to find rendered files">>]
    ELSE ShowFolder(h, m.node, m.log, DirName(m.menu), exit_code)

\* handler.py:416-426: the folder of the cached path, when it exists
ShowCached(h, profs, dsk, m, exit_code) ==
    IF m.err # NoError
    THEN [node |-> m.node, err |-> m.err, dir |-> <<>>, log |-> m.log]
    ELSE IF Len(m.menu) >= 5 /\ DirName(m.menu) \in dsk.dirs
    THEN ShowFolder(h, m.node, m.log, DirName(m.menu), exit_code)
    ELSE ShowRendered(h, profs, dsk, m, exit_code)

\* show_in_fs on the node: _get_render_path reads the label of the output
\* path menu, which get_output_path_menu_items computes
show_in_fs(h, profs, node, dsk, exit_code) ==
    ShowCached(h, profs, dsk, get_output_path_menu_items(h, profs, node), exit_code)

\* The sessions: any platform, with a UI or without, the work file of a shot
\* open or a file that is none
ShowHosts ==
    {[h EXCEPT !.platform = p] : h \in {x \in PathHosts : x.workTemplate}, p \in Platforms}

InitShow ==
    \E h \in ShowHosts, settings \in PathSettings :
        /\ host = h
        /\ profiles = Constructed(settings).table
        /\ nodes = 1 :> SceneNode(h, Constructed(settings).table, "Rop",
                                  "tk_default", 1, "cache_a", <<>>)
        /\ disk = EmptyDisk
        /\ publishes = <<>>
        /\ ret = Ret("__init__", 0, NoError, <<>>, FALSE, Constructed(settings).log, {})
        /\ snap = NoSnap
        /\ sessions = NoSessions
        /\ config = settings

\* The menu of the output path parameter is evaluated
GetOutputPathMenuItems(n) ==
    /\ \E m \in {get_output_path_menu_items(host, profiles, nodes[n])} :
           /\ nodes' = [nodes EXCEPT ![n] = m.node]
           /\ ret' = Ret("get_output_path_menu_items", n, m.err, m.menu, FALSE, m.log, {})
    /\ UNCHANGED <<profiles, host, disk, publishes, snap, sessions, config>>

\* exit_code is what os.system returns when it is called
ShowInFs(n, exit_code) ==
    /\ \E r \in {show_in_fs(host, profiles, nodes[n], disk, exit_code)} :
           /\ nodes' = [nodes EXCEPT ![n] = r.node]
           /\ ret' = Ret("show_in_fs", n, r.err, r.dir, FALSE, r.log, {})
    /\ UNCHANGED <<profiles, host, disk, publishes, snap, sessions, config>>

\* The first render of the session writes a cache of the node
RenderFirst(n) ==
    /\ disk = EmptyDisk
    /\ WriteCache(n)

NextShow ==
    \/ \E n \in TkNodes : GetOutputPathMenuItems(n)
    \/ \E n \in TkNodes, exit_code \in {0, 1} : ShowInFs(n, exit_code)
    \/ \E n \in TkNodes : RenderFirst(n)
    \/ \E n \in TkNodes : EditNode(n)

SpecShow == InitShow /\ [][NextShow]_vars

\* The entries of a log that are commands run by os.system
Commands(log) == {k \in DOMAIN log : log[k] \in {ShellCommand(p) : p \in RecognizedPlatforms}}

\* C13: in show_in_fs, when a render directory was found and the platform is
\* none of the recognized ones, the condition is logged as an error and
\* displayed in a message, and the call returns without raising an exception
\* and without executing a shell command.
C13_UnsupportedPlatformNonFatal ==
    (/\ ret.op = "show_in_fs"
     /\ ret.path # <<>>
     /\ host.platform \notin RecognizedPlatforms)
    => /\ \E k \in DOMAIN ret.log : ret.log[k] = "error: platform not supported"
       /\ \E k \in DOMAIN ret.log : ret.log[k] = "message: platform not supported"
       /\ Commands(ret.log) = {}
       /\ ret.err = NoError

\* C13, what the call does: the folder of the node's cache exists and the
\* platform is 'linux'; the error is logged and displayed, no command is
\* run, and the call raises UnboundLocalError
C13_Witness ==
    /\ ret.op = "show_in_fs"
    /\ host.platform = "linux"
    /\ ret.path # <<>> /\ ret.path \in disk.dirs
    /\ \E k \in DOMAIN ret.log : ret.log[k] = "error: platform not supported"
    /\ \E k \in DOMAIN ret.log : ret.log[k] = "message: platform not supported"
    /\ Commands(ret.log) = {}
    /\ ret.err = "UnboundLocalError"

----------------------------------------------------------------------------
(* _copy_parm_values, handler.py:852-898, applied to the nodes of a scene: *)
(* a Toolkit geometry node, a built-in geometry node and a node of         *)
(* another type whose spare parameter 'trange' is a string.                *)

InitCopy ==
    \E h \in ConvHosts, settings \in ConvSettings, kind \in TkKinds :
        /\ host = h
        /\ profiles = Constructed(settings).table
        /\ nodes = (1 :> SceneNode(h, Constructed(settings).table, "Rop", kind,
                                   1, "cache_a", <<>>))
                 @@ (2 :> SceneNode(h, Constructed(settings).table, "Rop", "geo_plain",
                                    2, "cache_b", <<>>))
                 @@ (3 :> NewNode(h, NULL_TYPE, "Sop", 3))
        /\ disk = EmptyDisk
        /\ publishes = <<>>
        /\ ret = Ret("__init__", 0, NoError, <<>>, FALSE, Constructed(settings).log, {})
        /\ snap = NoSnap
        /\ sessions = NoSessions
        /\ config = settings

\* The excludes lists of the calls
CopyExcludes == {<<>>, <<"trange">>}

\* _copy_parm_values(a, b, excludes).  The call's record holds the source
\* node and, as its path, the excluded names
CopyParmValues(a, b, excludes) ==
    /\ a # b
    /\ \E r \in {_copy_parm_values(host, nodes[a], nodes[b],
                                     {excludes[k] : k \in DOMAIN excludes})} :
           /\ nodes' = [nodes EXCEPT ![b].parms = r.parms]
           /\ ret' = Ret("_copy_parm_values", b, r.err, excludes, FALSE, <<>>, {a})
    /\ UNCHANGED <<profiles, host, disk, publishes, snap, sessions, config>>

\* The user picks a script language or a time range on the Toolkit node
PickMenuItem(n) ==
    \E name \in {"lpreframe", "trange"}, i \in {0, 1} : SetParm(n, name, i)

\* The calls: from the Toolkit node to the two others, as when it is
\* converted, and from the built-in node back to it
CopyPairs == {<<1, 2>>, <<1, 3>>, <<2, 1>>}

NextCopy ==
    \/ \E p \in CopyPairs, excludes \in CopyExcludes : CopyParmValues(p[1], p[2], excludes)
    \/ \E n \in TkNodes : PickMenuItem(n)

SpecCopy == InitCopy /\ [][NextCopy]_vars

\* The names the call recorded in ret copies, in order
CopiedNames(a, r) ==
    SelectSeq(ParmOrder, LAMBDA n : n \in DOMAIN nodes[a].parms
                                    /\ \A k \in DOMAIN r.path : r.path[k] # n)

\* Parameter n of a has no keyframes and no string template, b has a parameter
\* of the name, and setting it with the evaluated number is a type error
NumberRefused(a, b, n) ==
    /\ ParmKind(nodes[a].type, host, n) \in {"int", "float"}
    /\ nodes[a].parms[n].keys = {}
    /\ ParmKind(nodes[b].type, host, n) = "string"

\* Parameter n of a is a string without keyframes that b's parameter refuses
StringRefused(a, b, n) ==
    /\ ParmKind(nodes[a].type, host, n) = "string"
    /\ nodes[a].parms[n].keys = {}
    /\ ParmKind(nodes[b].type, host, n) \in {"int", "float"}
    /\ ~(host.tokens /\ nodes[a].parms[n].s \in {<<"hscript">>, <<"python">>})

\* The places in the order at which the call from a to b raises
RaisesAt(a, b, names) ==
    {k \in DOMAIN names :
        \/ StringRefused(a, b, names[k])
        \/ NumberRefused(a, b, names[k])
            /\ names[k] \notin {"lpreframe", "lpostframe"}}

\* The call from a to b over the names in order: the fallback of the script
\* menus before the first raise, and the raise for another name
FallbackMaps(a, b, names, raises) ==
    \A k \in DOMAIN names :
        (/\ NumberRefused(a, b, names[k])
         /\ names[k] \in {"lpreframe", "lpostframe"}
         /\ \A x \in raises : k < x)
        => /\ nodes[a].parms[names[k]].i = 0 => nodes'[b].parms[names[k]].s = <<"hscript">>
           /\ nodes[a].parms[names[k]].i = 1 => nodes'[b].parms[names[k]].s = <<"python">>

OtherNameRaises(a, b, names, raises) ==
    \A k \in DOMAIN names :
        (/\ NumberRefused(a, b, names[k])
         /\ names[k] \notin {"lpreframe", "lpostframe"}
         /\ \A x \in raises : k <= x)
        => /\ ret'.err = "TypeError"
           /\ \A x \in k..Len(names) :
                names[x] \in DOMAIN nodes[b].parms
                => nodes'[b].parms[names[x]] = nodes[b].parms[names[x]]

\* C14: in _copy_parm_values, when setting the target parameter with the
\* evaluated value of a source parameter that is no string and has no
\* keyframes fails with a type error, a parameter whose name starts with
\* 'lpre' or 'lpost' is set to 'hscript' for index 0 and to 'python' for index
\* 1; for any other name the error is raised again, and neither that parameter
\* nor the ones after it are copied.
C14_ScriptMenuFallback ==
    [][\A a, b \in DOMAIN nodes :
        (ret'.op = "_copy_parm_values" /\ ret'.node = b /\ ret'.conv = {a})
        => /\ FallbackMaps(a, b, CopiedNames(a, ret'),
                           RaisesAt(a, b, CopiedNames(a, ret')))
           /\ OtherNameRaises(a, b, CopiedNames(a, ret'),
                              RaisesAt(a, b, CopiedNames(a, ret')))
      ]_vars

\* C14 witness: the Toolkit node's script menu is at index 1; the copy to the
\* built-in node of a host with string script menus set 'python', and the copy
\* to the node whose 'trange' is a string raised the type error there and
\* left the parameters after it, which differ from the source's, as they were
C14_Witness ==
    /\ host.strScripts
    /\ nodes[1].parms["lpreframe"] = PV(1)
    /\ nodes[2].parms["lpreframe"].s = <<"python">>
    /\ ret.op = "_copy_parm_values" /\ ret.node = 3 /\ ret.conv = {1}
    /\ ret.path = <<>>
    /\ ret.err = "TypeError"
    /\ nodes[3].parms["f1"] # nodes[1].parms["f1"]
    /\ nodes[3].parms["lpreframe"].s = <<"hscript">>

----------------------------------------------------------------------------
(* get_all_tk_geometry_nodes, handler.py:264-273, in the conversion scenes *)

\* hou.nodeType(hou.ropNodeTypeCategory(), tk_node_type).instances()
get_all_tk_geometry_nodes(ns) ==
    SetToSeq({m \in DOMAIN ns : ns[m].type = TK_GEOMETRY_NODE_TYPE /\ ns[m].cat = "Rop"})

\* The call's record holds the returned list of nodes as its path
GetAllTkGeometryNodes ==
    /\ ret' = Ret("get_all_tk_geometry_nodes", 0, NoError,
                  get_all_tk_geometry_nodes(nodes), FALSE, <<>>, {})
    /\ ret' # ret
    /\ UNCHANGED <<nodes, profiles, host, disk, publishes, snap, sessions, config>>

NextNodes ==
    \/ ConvertToRegular
    \/ ConvertBack
    \/ GetAllTkGeometryNodes

SpecNodes == InitConv /\ [][NextNodes]_vars

\* The nodes convert_to_regular_geometry_nodes goes through
ToBeConverted == {Instances(nodes, {TK_GEOMETRY_NODE_TYPE})[k] :
                    k \in DOMAIN Instances(nodes, {TK_GEOMETRY_NODE_TYPE})}

\* C15: get_all_tk_geometry_nodes returns all Toolkit geometry node instances
\* of the session: every node that convert_to_regular_geometry_nodes would
\* convert, of the surface-operator or of the render-operator category, is in
\* the returned list.
C15_AllTkNodesReturned ==
    ret.op = "get_all_tk_geometry_nodes"
    => \A m \in ToBeConverted : \E k \in DOMAIN ret.path : ret.path[k] = m

\* C15, what the call does: a Toolkit node of the surface-operator category
\* is in the session, would be converted, and is not in the returned list
C15_Witness ==
    /\ ret.op = "get_all_tk_geometry_nodes"
    /\ \E m \in ToBeConverted :
        /\ nodes[m].cat = "Sop"
        /\ \A k \in DOMAIN ret.path : ret.path[k] # m
    /\ \A k \in DOMAIN ret.path : nodes[ret.path[k]].cat = "Rop"

----------------------------------------------------------------------------
(* The cache of _compute_output_path across calls that raise,              *)
(* handler.py:748-766                                                      *)

\* C16: cache coherence of _compute_output_path.  After any sequence of calls
\* on a node, calls that raise during the template lookup or while the fields
\* are applied included, every call that returns yields the path obtained by
\* applying the template to the fields current at that call: never a path
\* computed for a different fields dict, and never an empty (None) result.
C16_CacheCoherent ==
    (ret.op = "_compute_output_path" /\ ret.err = NoError)
    => /\ ret.path # <<>>
       /\ KnownTemplate(CurrentFields(ret.node).output_profile.output_cache_template)
       /\ ret.path = ApplyFields(CurrentFields(ret.node).output_profile.output_cache_template,
                                 CurrentFields(ret.node))

\* C16, what the calls do: the node held the path of another profile when a
\* call raised at the lookup of the cache template of its profile, which the
\* configuration does not define; the next call returned that path
C16_Witness ==
    /\ ret.op = "_compute_output_path" /\ ret.err = NoError
    /\ ~ret.applied
    /\ ~KnownTemplate(CurrentFields(ret.node).output_profile.output_cache_template)
    /\ ret.path # <<>>
    /\ ret.path[1] = "geo_cache_seq"
    /\ nodes[ret.node].cachedFields = <<CurrentFields(ret.node)>>

\* C16, the empty result: the first call on the node raised while the fields
\* were applied, and the next call returned None
C16_ReturnsNone ==
    /\ ret.op = "_compute_output_path" /\ ret.err = NoError
    /\ ret.path = <<>>
    /\ ~CanApply(CurrentFields(ret.node).output_profile.output_cache_template,
                 CurrentFields(ret.node))

----------------------------------------------------------------------------
(* The menu of the output path when the path cannot be computed,           *)
(* handler.py:358-375                                                      *)

\* The call recorded in r logged the error of the menu items
LoggedMenuError(r) ==
    \E k \in DOMAIN r.log : r.log[k] = "error: unable to construct the menu items"

\* The call recorded in r wrote the parameter 'sopoutput_child'
WroteChild(r) == \E k \in DOMAIN r.log : r.log[k] = "set: sopoutput_child"

\* C17: when the path computation raises the toolkit error,
\* get_output_path_menu_items logs the error and returns the menu whose item
\* and label are both the 'ERROR: ...' message, without raising any other
\* exception, with a host UI or without one; and 'sopoutput_child' is written
\* only with a path that was computed.
C17_ErrorMenuReturned ==
    [][\A n \in DOMAIN nodes :
        (ret'.op = "get_output_path_menu_items" /\ ret'.node = n)
        => /\ _compute_output_path(host, profiles, nodes[n]).err = "TankError"
                => /\ LoggedMenuError(ret')
                   /\ ret'.err = NoError
                   /\ ret'.path = <<"ERROR">>
           /\ WroteChild(ret')
                => /\ _compute_output_path(host, profiles, nodes[n]).err = NoError
                   /\ _compute_output_path(host, profiles, nodes[n]).path # <<>>
      ]_vars

\* C17, what the call does with a host UI: the path computation raised the
\* toolkit error, the error was logged, and the call raised UnboundLocalError
\* at the write of 'sopoutput_child'; no menu was returned
C17_Witness ==
    /\ ret.op = "get_output_path_menu_items"
    /\ host.ui
    /\ ~IsWorkFile(host)
    /\ LoggedMenuError(ret)
    /\ ~WroteChild(ret)
    /\ ret.err = "UnboundLocalError"
    /\ ret.path = <<>>

\* C17, without a host UI the menu of the error is returned
C17_ErrorMenuWithoutUI ==
    /\ ret.op = "get_output_path_menu_items"
    /\ ~host.ui
    /\ LoggedMenuError(ret)
    /\ ret.err = NoError
    /\ ret.path = <<"ERROR">>

----------------------------------------------------------------------------
(* The registry across auto_publish calls that fail, handler.py:529-581    *)

\* C18: across any sequence of auto_publish calls on a node whose version
\* does not change, calls in which the registration of the cache fails after
\* the backup was registered included, each backup path and each cache path
\* is registered as a publish at most once.
C18_RegisteredOnce ==
    \A i, j \in DOMAIN publishes : publishes[i].path = publishes[j].path => i = j

\* C18, what the calls do: the call before registered the backup and failed
\* on the cache; this one found no publish of the cache path and registered
\* the backup a second time, then the cache
C18_Witness ==
    /\ ret.op = "auto_publish" /\ ret.err = NoError
    /\ Len(publishes) = 3
    /\ publishes[1].type = "Backup File"
    /\ publishes[2] = publishes[1]
    /\ publishes[3].path = ret.path
    /\ publishes[3].deps = <<publishes[1].path>>
    /\ publishes[3].version = publishes[1].version

----------------------------------------------------------------------------
(* The graph after a conversion that raises, handler.py:128-171, 218-259   *)

\* Node k after the call is the original m, as it was
UntouchedOriginal(k, m) ==
    /\ nodes'[k].name = nodes[m].name
    /\ nodes'[k].type = nodes[m].type
    /\ nodes'[k].pos = nodes[m].pos
    /\ nodes'[k].color = nodes[m].color
    /\ nodes'[k].parms = nodes[m].parms

\* Node k after the call is the replacement of the original m, which is gone
ConvertedReplacement(k, m) ==
    /\ IsSource(m) /\ Gone(m)
    /\ nodes'[k].type = Counterpart(nodes[m].type, nodes[m].cat)
    /\ nodes'[k].name = nodes[m].name
    /\ nodes'[k].pos = nodes[m].pos
    /\ nodes'[k].color = nodes[m].color

\* C19: a conversion never leaves a half-built replacement behind.  After
\* convert_to_regular_geometry_nodes or convert_back_to_tk_geometry_nodes
\* returns or raises, every node of the graph is an untouched original or a
\* converted replacement with the original's name, position and colour; no
\* newly created node is there together with its original.
C19_NoHalfBuiltReplacement ==
    [][IsConvCall =>
        \A k \in DOMAIN nodes' :
            \E m \in DOMAIN nodes : UntouchedOriginal(k, m) \/ ConvertedReplacement(k, m)
      ]_vars

\* The same of the calls that return
C19_ReturnedClean ==
    [][(IsConvCall /\ ret'.err = NoError) =>
        \A k \in DOMAIN nodes' :
            \E m \in DOMAIN nodes : UntouchedOriginal(k, m) \/ ConvertedReplacement(k, m)
      ]_vars

\* C19, what a call that raises leaves: the source has more input
\* connections than the new node has inputs, _copy_inputs raised, and the new
\* node, under the name createNode gave it, is in the graph with the original
C19_Witness ==
    /\ ret.op \in {"convert_to_regular", "convert_back"}
    /\ ret.err = "InvalidInput"
    /\ \E k, m \in DOMAIN nodes :
        /\ nodes[k].name = DefaultName(nodes[k].type, k)
        /\ nodes[k].type = Counterpart(nodes[m].type, nodes[m].cat)
        /\ nodes[m].name \in SceneNames
        /\ nodes[m].name \notin ret.conv
        /\ nodes[k].pos # nodes[m].pos

============================================================================
